---- MODULE Spec2Model ----
(***************************************************************************)
(* A model of the nsys-profiling-poc example scripts.  The repository is a *)
(* set of independent scripts; each script (or function of a script) that  *)
(* is studied here is one component of the model, with its own variables,  *)
(* its own initial condition and its own specification.  A component's     *)
(* specification leaves the variables of the other components at rest.     *)
(***************************************************************************)
EXTENDS Integers, Sequences, FiniteSets, TLC

(***************************************************************************)
(* Bounds of the model (scaled-down program inputs).                       *)
(***************************************************************************)
\* python/3_multiprocessing_example.py:160  num_items = 1000, scaled down
NumItems == 3
\* python/3_multiprocessing_example.py:161  num_consumers = 4, scaled down
NumConsumers == 3
\* python/3_multiprocessing_example.py:157  mp.Queue(maxsize=100), scaled down
WorkQueueMaxSize == 2
\* the largest value of mp.cpu_count() (num_processes of shared_memory_example)
MaxProcs == 4
\* the longest text after "Duration:" in a stats file
MaxTextLen == 3
\* the longest text after "Total samples:" / "Context switches:"
MaxCountLen == 2
\* the most rows of a "Top Functions" table
MaxTopRows == 1
\* the most .nsys-rep files generate_report finds
MaxProfiles == 3
\* scripts/compare_results.py:78  example_pairs has 5 pairs, scaled down
NumPairs == 2
\* python/4_nvtx_annotations.py:301  train_model(..., epochs=5), scaled down
NvEpochs == 2
\* python/4_nvtx_annotations.py:307  process_batches(5), scaled down
NvBatches == 2
\* python/4_nvtx_annotations.py:181  range(3) datasets, scaled down
NvDatasets == 2
\* the most profiler.measure calls made inside one with block
MaxMeasures == 3
\* the largest elapsed time the clock gives a measure call
MaxElapsed == 2
\* the longest text typed at a prompt of main_menu
MaxChoiceLen == 2
\* the most Python scripts list_examples finds
MaxPy == 2
\* the most C++ binaries list_examples finds
MaxCpp == 1
\* the most records in profiles_data
MaxRecords == 3
\* the most charts handed to generate_html_report
MaxCharts == 2
\* the largest n of the n x n inputs of strassen_multiply
MaxMatrixN == 270
\* the most rows and the most columns of a matrix given to the multiplications
MaxDim == 2
\* the most entries of such a matrix that are 2^27 + 1
MaxLarge == 1
\* the number of data packets the producer thread puts (1000 in the code)
TqItems == 3
\* maxsize of the queue.Queue of producer_consumer_io (100 in the code)
TqMaxSize == 2
\* the number of write_with_limit tasks of rate_limited_io (200 in the code)
RlTasks == 4
\* the initial value of the asyncio.Semaphore of rate_limited_io (10 in the code)
RlLimit == 2
\* the largest argument given to fibonacci_iterative / fibonacci_recursive
MaxFibN == 16
\* the largest argument given to prime_sieve
MaxLimit == 30

\* The sentinel the producer and main put on the work queue (None).
None == -1

Consumers == 1..NumConsumers

VARIABLES
    \* ---- python/3_multiprocessing_example.py: producer_consumer_example
    work_queue,     \* mp.Queue(maxsize): the sequence of entries not yet got
    result_queue,   \* mp.Queue(): the result tuples not yet got by main
    main_pc,        \* main's position in producer_consumer_example
    main_k,         \* main's loop counter at that position
    total_items,    \* main's total_items accumulator
    producer_pc,    \* "unstarted" | "run" | "sentinel" | "exited"
    producer_i,     \* the producer's loop variable i
    consumer_pc,    \* per consumer: "unstarted" | "get" | "result" | "exited"
    consumer_count, \* per consumer: its local count
    processed,      \* history: per item, how many times a consumer processed it
    sentinels_put,  \* history: how many sentinels have been put on work_queue
    sentinels_got,  \* history: per consumer, how many sentinels it dequeued
    results_put,    \* history: per consumer, how many result tuples it put
    \* ---- python/3_multiprocessing_example.py: shared_memory_example
    shm_nproc,      \* num_processes = mp.cpu_count()
    shm_arr,        \* shared_array[0], a C double (here: the integer it holds)
    shm_lock,       \* lock: 0 when free, else the worker holding it
    shm_main_pc,    \* main's position: "start" | "join" | "done"
    shm_main_k,     \* main's loop counter at that position
    worker_pc,      \* per worker: "unstarted" | "sum" | "acquire" | "read" |
                    \* "write" | "release" | "exited"
    worker_sum,     \* per worker: local_sum, a Python int
    worker_tmp,     \* per worker: the value of arr[0] it read for +=
    shm_order,      \* history: the workers in the order they got the lock
    \* ---- python/1_basic_cpu_profiling.py: fibonacci_iterative
    fib_n,          \* the argument n
    fib_pc,         \* "idle" | "entry" | "loop" | "return"
    fib_i,          \* the loop's position in range(2, n + 1)
    fib_a,          \* local a
    fib_b,          \* local b
    fib_ret,        \* the value returned
    \* ---- python/1_basic_cpu_profiling.py: prime_sieve
    sieve_limit,    \* the argument limit
    sieve_pc,       \* "idle" | "entry" | "outer" | "inner" | "collect" |
                    \* "return" | "raise"
    sieve,          \* the list sieve; sieve[k] of the code is sieve[k + 1] here
    sieve_i,        \* the outer loop's i
    sieve_j,        \* the inner loop's j
    sieve_ret,      \* the list returned
    sieve_exc,      \* the exception raised ("" when none)
    \* ---- scripts/compare_results.py: parse_stats_file
    ps_exists,      \* filepath.exists()
    ps_content,     \* what the file holds (see below)
    ps_pc,          \* "idle" | "entry" | "duration" | "samples" | "switches" |
                    \* "rows" | "return" | "raise"
    ps_stats,       \* the dict stats
    ps_row,         \* the position of the loop over the table's rows
    ps_exc,         \* the exception raised ("" when none)
    \* ---- scripts/generate_visual_report.py: generate_report / extract_stats
    gr_nsys_installed, \* the nsys executable can be started
    gr_profiles,    \* per profile found: what `nsys stats` does with it
    gr_pc,          \* "idle" | "find" | "extract" | "extracted" | "charts" |
                    \* "return" | "raise"
    gr_k,           \* the position of the loop over profiles
    gr_stats,       \* the record extract_stats returned last
    gr_run,         \* how the last subprocess.run ended
    gr_errors,      \* how many "Error extracting stats" lines were printed
    gr_profiles_data, \* the list profiles_data
    gr_exc,         \* the exception leaving generate_report ("" when none)
    \* ---- scripts/compare_results.py: main
    cr_matplotlib,  \* MATPLOTLIB_AVAILABLE
    cr_results_dir, \* results_dir.exists()
    cr_py,          \* per example pair: the duration in the Python stats file
    cr_cpp,         \* per example pair: the duration in the C++ stats file
    cr_pc,          \* "idle" | "main" | "report" | "write" | "charts" |
                    \* "done" | "exit" | "raise"
    cr_comparisons, \* the pairs compare_implementations kept
    cr_report,      \* the lines of the report generate_performance_report built
    cr_files,       \* the files written to the results directory
    cr_exit,        \* the process's exit status (-1 while it runs)
    cr_exc,         \* the exception leaving main ("" when none)
    \* ---- python/4_nvtx_annotations.py: import and main
    nv_available,   \* NVTX_AVAILABLE
    nv_state,       \* "idle" | "run" | "done" | "raise"
    nv_pc,          \* the position in NvProgram
    nv_depth,       \* how many ranges are open in the profiler
    nv_done,        \* how many of main's examples have completed
    nv_exc,         \* the exception leaving the script ("" when none)
    \* ---- python/5_io_bound_example.py: imports and main
    io_aiofiles,    \* the aiofiles package is installed
    io_running,     \* the event loop running in the thread: "" | "asyncio.run"
    io_a,           \* which run_until_complete of async_io_patterns is next
    io_fault,       \* the measure call whose function fails (0: none)
    io_pc,          \* "idle" | "import" | "main" | "block" | "leave" |
                    \* "done" | "raise"
    io_k,           \* the position in IoProgram
    io_tmp,         \* profiler.temp_dir exists
    io_files,       \* the files under profiler.temp_dir
    io_results,     \* the keys of profiler.results
    io_sections,    \* the sections that have run a statement
    io_printed,     \* what has been printed of "Skipped", "Summary", "complete"
    io_exc,         \* the exception leaving the script ("" when none)
    \* ---- python/5_io_bound_example.py: class IOProfiler
    pf_pc,          \* "idle" | "new" | "block" | "leave" | "done" | "raise"
    pf_n,           \* how many measure calls have been made
    pf_tmp,         \* self.temp_dir exists
    pf_files,       \* the files under self.temp_dir
    pf_results,     \* self.results, as <<name, elapsed>> pairs
    pf_name,        \* the name given to the last measure call
    pf_func_calls,  \* how many times a measured function was called
    pf_func_ret,    \* what the last measured function returned
    pf_ret,         \* what the last measure call returned
    pf_removed,     \* the files __exit__ removed
    pf_exc,         \* the exception leaving the with block ("" when none)
    \* ---- test_environment.py: main
    env_in,         \* what the six checks find in the environment
    env_pc,         \* "idle" | "tests" | "summary" | "returned" | "exit"
    env_tests,      \* the list tests, as far as it is built
    env_ran,        \* the checks that have run, in order
    env_ret,        \* what main returned
    env_exit,       \* the exit status (-1 while the script runs)
    \* ---- run_example.py: main_menu
    mn_nsys,        \* nsys is installed
    mn_pc,          \* "idle" | "start" | "list" | "choice" | "profile" | "exit" | "raise"
    mn_P,           \* len(examples['python']) of this iteration
    mn_C,           \* len(examples['cpp']) of this iteration
    mn_choice,      \* the text typed last in this iteration
    mn_mode,        \* the branch taken: "q", "b", "a", "p" or "plain"
    mn_launched,    \* the subprocess.run calls of this iteration
    mn_printed,     \* the complaint printed in this iteration
    mn_exc,         \* the exception leaving main_menu ("" when none)
    \* ---- scripts/generate_visual_report.py: generate_html_report
    ht_profiles,    \* profiles_data: how each record's name starts
    ht_charts,      \* len(charts)
    ht_pc,          \* "idle" | "count" | "profiles" | "fill" | "return" | "raise"
    ht_k,           \* the position of the loop over profiles_data
    ht_values,      \* the counts computed for the template
    ht_sections,    \* how many profile sections profiles_html holds
    ht_filled,      \* the fields of the template that were filled
    ht_written,     \* profiling_report.html has been written
    ht_ret,         \* the path returned
    ht_exc,         \* the exception leaving generate_html_report
    \* ---- python/2_matrix_operations.py: strassen_multiply
    st_n,           \* a.shape[0] of the outermost call
    st_pc,          \* "idle" | "call" | "ret" | "done"
    st_arg,         \* a.shape[0] of the call being entered
    st_stack,       \* per open call: a.shape[0] after its padding
    st_res,         \* the shape of the array returned last
    st_ret,         \* the shape of the result of the outermost call
    \* ---- python/2_matrix_operations.py: naive_matrix_multiply, optimized_matrix_multiply
    mm_a,           \* the argument a
    mm_b,           \* the argument b
    mm_args,        \* a and b as they were before the calls
    mm_naive,       \* what naive_matrix_multiply returned or raised
    mm_opt,         \* what optimized_matrix_multiply returned or raised
    \* ---- python/5_io_bound_example.py: producer_consumer_io (threads)
    tq_queue,       \* work_queue, oldest entry first: packet indices and None
    tq_main,        \* "idle" | "start_producer" | "start_consumers" | "join_producer" | "join_consumers" | "done"
    tq_k,           \* consumer threads started, then consumer threads joined
    tq_producer,    \* "unstarted" | "put" | "sentinel" | "done"
    tq_i,           \* i of the producer's loop: packets put so far
    tq_consumer,    \* per consumer: "unstarted" | "get" | "write" | "reput" | "done"
    tq_item,        \* per consumer: the item its last get returned
    tq_got,         \* per packet index: how many times a get returned it
    tq_files,       \* <<consumer_id, idx>> of the files consumer_{id}_data_{idx}.txt written
    tq_writes,      \* per packet index: how many times a file was written for it
    \* ---- python/5_io_bound_example.py: rate_limited_io (asyncio tasks)
    rl_task,        \* per task: "pending" | "waiting" | "inside" | "open" | "written" | "done"
    rl_value,       \* semaphore._value
    rl_waiters,     \* semaphore._waiters: the tasks of the futures, oldest first
    rl_woken,       \* the tasks whose future in _waiters has its result set
    rl_acquired,    \* per task: how many times its acquire() has returned
    rl_released,    \* per task: how many times it has called release()
    rl_waited,      \* the tasks that had to wait in acquire()
    rl_gather,      \* "idle" | "waiting" | "returned"
    rl_ret,         \* what rate_limited_io returns: len(tasks)
    \* ---- python/4_nvtx_annotations.py: profile_function (one call of a wrapped function)
    wr_available,   \* NVTX_AVAILABLE
    wr_body,        \* the nvtx uses of the wrapped function, in program order
    wr_fault,       \* the use before which the wrapped function raises (0: it returns)
    wr_value,       \* what the wrapped function returns if it returns
    wr_pc,          \* "idle" | "call" | "func" | "finally" | "returned" | "raised"
    wr_k,           \* the position in wr_body
    wr_before,      \* the ranges open when the wrapper is called
    wr_ranges,      \* the ranges open in the profiler, innermost last
    wr_log,         \* what the wrapper has done, in order
    wr_result,      \* result, once bound in the wrapper
    wr_exc,         \* the exception in flight in the wrapper
    wr_ret,         \* what the call of the wrapper returned to its caller
    wr_out          \* the exception the call of the wrapper raised in its caller

pcVars == <<work_queue, result_queue, main_pc, main_k, total_items,
            producer_pc, producer_i, consumer_pc, consumer_count,
            processed, sentinels_put, sentinels_got, results_put>>

shmVars == <<shm_nproc, shm_arr, shm_lock, shm_main_pc, shm_main_k,
             worker_pc, worker_sum, worker_tmp, shm_order>>

fibVars == <<fib_n, fib_pc, fib_i, fib_a, fib_b, fib_ret>>

sieveVars == <<sieve_limit, sieve_pc, sieve, sieve_i, sieve_j, sieve_ret,
               sieve_exc>>

psVars == <<ps_exists, ps_content, ps_pc, ps_stats, ps_row, ps_exc>>

grVars == <<gr_nsys_installed, gr_profiles, gr_pc, gr_k, gr_stats, gr_run,
            gr_errors, gr_profiles_data, gr_exc>>

crVars == <<cr_matplotlib, cr_results_dir, cr_py, cr_cpp, cr_pc,
            cr_comparisons, cr_report, cr_files, cr_exit, cr_exc>>

nvVars == <<nv_available, nv_state, nv_pc, nv_depth, nv_done, nv_exc>>

ioVars == <<io_aiofiles, io_running, io_a, io_fault, io_pc, io_k, io_tmp,
            io_files, io_results,
            io_sections, io_printed, io_exc>>

pfVars == <<pf_pc, pf_n, pf_tmp, pf_files, pf_results, pf_name, pf_func_calls,
            pf_func_ret, pf_ret, pf_removed, pf_exc>>

envVars == <<env_in, env_pc, env_tests, env_ran, env_ret, env_exit>>

mnVars == <<mn_nsys, mn_pc, mn_P, mn_C, mn_choice, mn_mode, mn_launched,
            mn_printed, mn_exc>>

htVars == <<ht_profiles, ht_charts, ht_pc, ht_k, ht_values, ht_sections,
            ht_filled, ht_written, ht_ret, ht_exc>>

stVars == <<st_n, st_pc, st_arg, st_stack, st_res, st_ret>>

mmVars == <<mm_a, mm_b, mm_args, mm_naive, mm_opt>>

tqVars == <<tq_queue, tq_main, tq_k, tq_producer, tq_i, tq_consumer, tq_item,
            tq_got, tq_files, tq_writes>>

rlVars == <<rl_task, rl_value, rl_waiters, rl_woken, rl_acquired, rl_released,
            rl_waited, rl_gather, rl_ret>>

wrVars == <<wr_available, wr_body, wr_fault, wr_value, wr_pc, wr_k, wr_before,
            wr_ranges, wr_log, wr_result, wr_exc, wr_ret, wr_out>>

vars == <<pcVars, shmVars, fibVars, sieveVars, psVars, grVars, crVars, nvVars,
          ioVars, pfVars, envVars, mnVars, htVars, stVars, mmVars, tqVars,
          rlVars, wrVars>>

(***************************************************************************)
(* The values of a component's variables while another component runs.     *)
(***************************************************************************)
PCIdle ==
    /\ work_queue = <<>>
    /\ result_queue = <<>>
    /\ main_pc = "idle"
    /\ main_k = 0
    /\ total_items = 0
    /\ producer_pc = "unstarted"
    /\ producer_i = 0
    /\ consumer_pc = <<>>
    /\ consumer_count = <<>>
    /\ processed = <<>>
    /\ sentinels_put = 0
    /\ sentinels_got = <<>>
    /\ results_put = <<>>

ShmIdle ==
    /\ shm_nproc = 0
    /\ shm_arr = <<>>
    /\ shm_lock = 0
    /\ shm_main_pc = "idle"
    /\ shm_main_k = 0
    /\ worker_pc = <<>>
    /\ worker_sum = <<>>
    /\ worker_tmp = <<>>
    /\ shm_order = <<>>

FibIdle ==
    /\ fib_n = 0
    /\ fib_pc = "idle"
    /\ fib_i = 0
    /\ fib_a = 0
    /\ fib_b = 0
    /\ fib_ret = 0

SieveIdle ==
    /\ sieve_limit = 0
    /\ sieve_pc = "idle"
    /\ sieve = <<>>
    /\ sieve_i = 0
    /\ sieve_j = 0
    /\ sieve_ret = <<>>
    /\ sieve_exc = ""

PsIdle ==
    /\ ps_exists = FALSE
    /\ ps_content = <<>>
    /\ ps_pc = "idle"
    /\ ps_stats = <<>>
    /\ ps_row = 0
    /\ ps_exc = ""

GrIdle ==
    /\ gr_nsys_installed = FALSE
    /\ gr_profiles = <<>>
    /\ gr_pc = "idle"
    /\ gr_k = 0
    /\ gr_stats = <<>>
    /\ gr_run = "none"
    /\ gr_errors = 0
    /\ gr_profiles_data = <<>>
    /\ gr_exc = ""

CrIdle ==
    /\ cr_matplotlib = FALSE
    /\ cr_results_dir = FALSE
    /\ cr_py = <<>>
    /\ cr_cpp = <<>>
    /\ cr_pc = "idle"
    /\ cr_comparisons = {}
    /\ cr_report = <<>>
    /\ cr_files = {}
    /\ cr_exit = -1
    /\ cr_exc = ""

NvIdle ==
    /\ nv_available = FALSE
    /\ nv_state = "idle"
    /\ nv_pc = 0
    /\ nv_depth = 0
    /\ nv_done = 0
    /\ nv_exc = ""

IoIdle ==
    /\ io_aiofiles = FALSE
    /\ io_running = ""
    /\ io_a = 0
    /\ io_fault = 0
    /\ io_pc = "idle"
    /\ io_k = 0
    /\ io_tmp = FALSE
    /\ io_files = {}
    /\ io_results = {}
    /\ io_sections = {}
    /\ io_printed = {}
    /\ io_exc = ""

ProfIdle ==
    /\ pf_pc = "idle"
    /\ pf_n = 0
    /\ pf_tmp = FALSE
    /\ pf_files = {}
    /\ pf_results = {}
    /\ pf_name = ""
    /\ pf_func_calls = 0
    /\ pf_func_ret = ""
    /\ pf_ret = ""
    /\ pf_removed = {}
    /\ pf_exc = ""

EnvIdle ==
    /\ env_in = <<>>
    /\ env_pc = "idle"
    /\ env_tests = <<>>
    /\ env_ran = <<>>
    /\ env_ret = FALSE
    /\ env_exit = -1

MenuIdle ==
    /\ mn_nsys = FALSE
    /\ mn_pc = "idle"
    /\ mn_P = 0
    /\ mn_C = 0
    /\ mn_choice = <<>>
    /\ mn_mode = ""
    /\ mn_launched = <<>>
    /\ mn_printed = ""
    /\ mn_exc = ""

HtmlIdle ==
    /\ ht_profiles = <<>>
    /\ ht_charts = 0
    /\ ht_pc = "idle"
    /\ ht_k = 0
    /\ ht_values = <<>>
    /\ ht_sections = 0
    /\ ht_filled = {}
    /\ ht_written = FALSE
    /\ ht_ret = ""
    /\ ht_exc = ""

StIdle ==
    /\ st_n = 0
    /\ st_pc = "idle"
    /\ st_arg = 0
    /\ st_stack = <<>>
    /\ st_res = 0
    /\ st_ret = 0

MmIdle ==
    /\ mm_a = <<>>
    /\ mm_b = <<>>
    /\ mm_args = <<>>
    /\ mm_naive = <<>>
    /\ mm_opt = <<>>

TqIdle ==
    /\ tq_queue = <<>>
    /\ tq_main = "idle"
    /\ tq_k = 0
    /\ tq_producer = "idle"
    /\ tq_i = 0
    /\ tq_consumer = <<>>
    /\ tq_item = <<>>
    /\ tq_got = <<>>
    /\ tq_files = {}
    /\ tq_writes = <<>>

RlIdle ==
    /\ rl_task = <<>>
    /\ rl_value = 0
    /\ rl_waiters = <<>>
    /\ rl_woken = {}
    /\ rl_acquired = <<>>
    /\ rl_released = <<>>
    /\ rl_waited = {}
    /\ rl_gather = "idle"
    /\ rl_ret = 0

WrIdle ==
    /\ wr_available = FALSE
    /\ wr_body = <<>>
    /\ wr_fault = 0
    /\ wr_value = ""
    /\ wr_pc = "idle"
    /\ wr_k = 0
    /\ wr_before = <<>>
    /\ wr_ranges = <<>>
    /\ wr_log = <<>>
    /\ wr_result = ""
    /\ wr_exc = ""
    /\ wr_ret = ""
    /\ wr_out = ""

\* every component but x is at rest
Idle(x) ==
    /\ IF x = "pc" THEN TRUE ELSE PCIdle
    /\ IF x = "shm" THEN TRUE ELSE ShmIdle
    /\ IF x = "fib" THEN TRUE ELSE FibIdle
    /\ IF x = "sieve" THEN TRUE ELSE SieveIdle
    /\ IF x = "ps" THEN TRUE ELSE PsIdle
    /\ IF x = "gr" THEN TRUE ELSE GrIdle
    /\ IF x = "cr" THEN TRUE ELSE CrIdle
    /\ IF x = "nv" THEN TRUE ELSE NvIdle
    /\ IF x = "io" THEN TRUE ELSE IoIdle
    /\ IF x = "pf" THEN TRUE ELSE ProfIdle
    /\ IF x = "env" THEN TRUE ELSE EnvIdle
    /\ IF x = "mn" THEN TRUE ELSE MenuIdle
    /\ IF x = "ht" THEN TRUE ELSE HtmlIdle
    /\ IF x = "st" THEN TRUE ELSE StIdle
    /\ IF x = "mm" THEN TRUE ELSE MmIdle
    /\ IF x = "tq" THEN TRUE ELSE TqIdle
    /\ IF x = "rl" THEN TRUE ELSE RlIdle
    /\ IF x = "wr" THEN TRUE ELSE WrIdle

\* the variables of the components other than the named one
notPC == <<shmVars, fibVars, sieveVars, psVars, grVars, crVars, nvVars,
           ioVars, pfVars, envVars, mnVars, htVars, stVars, mmVars, tqVars,
           rlVars, wrVars>>
notShm == <<pcVars, fibVars, sieveVars, psVars, grVars, crVars, nvVars,
            ioVars, pfVars, envVars, mnVars, htVars, stVars, mmVars, tqVars,
            rlVars, wrVars>>
notFib == <<pcVars, shmVars, sieveVars, psVars, grVars, crVars, nvVars,
            ioVars, pfVars, envVars, mnVars, htVars, stVars, mmVars, tqVars,
            rlVars, wrVars>>
notSieve == <<pcVars, shmVars, fibVars, psVars, grVars, crVars, nvVars,
              ioVars, pfVars, envVars, mnVars, htVars, stVars, mmVars, tqVars,
              rlVars, wrVars>>
notPs == <<pcVars, shmVars, fibVars, sieveVars, grVars, crVars, nvVars,
           ioVars, pfVars, envVars, mnVars, htVars, stVars, mmVars, tqVars,
           rlVars, wrVars>>
notGr == <<pcVars, shmVars, fibVars, sieveVars, psVars, crVars, nvVars,
           ioVars, pfVars, envVars, mnVars, htVars, stVars, mmVars, tqVars,
           rlVars, wrVars>>
notCr == <<pcVars, shmVars, fibVars, sieveVars, psVars, grVars, nvVars,
           ioVars, pfVars, envVars, mnVars, htVars, stVars, mmVars, tqVars,
           rlVars, wrVars>>
notNv == <<pcVars, shmVars, fibVars, sieveVars, psVars, grVars, crVars,
           ioVars, pfVars, envVars, mnVars, htVars, stVars, mmVars, tqVars,
           rlVars, wrVars>>
notIo == <<pcVars, shmVars, fibVars, sieveVars, psVars, grVars, crVars,
           nvVars, pfVars, envVars, mnVars, htVars, stVars, mmVars, tqVars,
           rlVars, wrVars>>
notProf == <<pcVars, shmVars, fibVars, sieveVars, psVars, grVars, crVars,
             nvVars, ioVars, envVars, mnVars, htVars, stVars, mmVars, tqVars,
             rlVars, wrVars>>
notEnv == <<pcVars, shmVars, fibVars, sieveVars, psVars, grVars, crVars,
            nvVars, ioVars, pfVars, mnVars, htVars, stVars, mmVars, tqVars,
            rlVars, wrVars>>
notMenu == <<pcVars, shmVars, fibVars, sieveVars, psVars, grVars, crVars,
             nvVars, ioVars, pfVars, envVars, htVars, stVars, mmVars, tqVars,
             rlVars, wrVars>>
notHtml == <<pcVars, shmVars, fibVars, sieveVars, psVars, grVars, crVars,
             nvVars, ioVars, pfVars, envVars, mnVars, stVars, mmVars, tqVars,
             rlVars, wrVars>>
notSt == <<pcVars, shmVars, fibVars, sieveVars, psVars, grVars, crVars,
           nvVars, ioVars, pfVars, envVars, mnVars, htVars, mmVars, tqVars,
           rlVars, wrVars>>
notMm == <<pcVars, shmVars, fibVars, sieveVars, psVars, grVars, crVars,
           nvVars, ioVars, pfVars, envVars, mnVars, htVars, stVars, tqVars,
           rlVars, wrVars>>
notTq == <<pcVars, shmVars, fibVars, sieveVars, psVars, grVars, crVars,
           nvVars, ioVars, pfVars, envVars, mnVars, htVars, stVars, mmVars,
           rlVars, wrVars>>
notRl == <<pcVars, shmVars, fibVars, sieveVars, psVars, grVars, crVars,
           nvVars, ioVars, pfVars, envVars, mnVars, htVars, stVars, mmVars,
           tqVars, wrVars>>
notWr == <<pcVars, shmVars, fibVars, sieveVars, psVars, grVars, crVars,
           nvVars, ioVars, pfVars, envVars, mnVars, htVars, stVars, mmVars,
           tqVars, rlVars>>

(***************************************************************************)
(* python/3_multiprocessing_example.py: producer_consumer_example.         *)
(* The work queue is modelled as one FIFO sequence: a put appends (and     *)
(* blocks while maxsize entries are in the queue), a get removes the head  *)
(* (and blocks while the queue is empty).                                  *)
(***************************************************************************)
PCInit ==
    /\ work_queue = <<>>
    /\ result_queue = <<>>
    /\ main_pc = "start_producer"
    /\ main_k = 0
    /\ total_items = 0
    /\ producer_pc = "unstarted"
    /\ producer_i = 0
    /\ consumer_pc = [c \in Consumers |-> "unstarted"]
    /\ consumer_count = [c \in Consumers |-> 0]
    /\ processed = [i \in 0..(NumItems - 1) |-> 0]
    /\ sentinels_put = 0
    /\ sentinels_got = [c \in Consumers |-> 0]
    /\ results_put = [c \in Consumers |-> 0]
    /\ Idle("pc")

QueueFull(q) == Len(q) >= WorkQueueMaxSize

\* range(num_items) of the producer's loop is exhausted
ProducerLoopEndOffByOne(i) == i >= NumItems - 1
ProducerLoopEnd(i) == i >= NumItems

\* how many sentinels main puts "for remaining consumers"
MainSentinelsOneShort == NumConsumers - 2
MainSentinels == NumConsumers - 1

\* the position of the entry a queue.get() removes: the oldest one
GetIndexNewest(q) == Len(q)
GetIndex(q) == 1

RemoveAt(q, k) == SubSeq(q, 1, k - 1) \o SubSeq(q, k + 1, Len(q))

\* main: producer_proc.start()
MainStartProducer ==
    /\ main_pc = "start_producer"
    /\ producer_pc' = "run"
    /\ main_pc' = "start_consumers"
    /\ main_k' = 0
    /\ UNCHANGED <<work_queue, result_queue, total_items, producer_i,
                   consumer_pc, consumer_count, processed, sentinels_put,
                   sentinels_got, results_put, notPC>>

\* main: for _ in range(num_consumers): c.start()
MainStartConsumer ==
    /\ main_pc = "start_consumers"
    /\ IF main_k < NumConsumers
       THEN /\ consumer_pc' = [consumer_pc EXCEPT ![main_k + 1] = "get"]
            /\ main_k' = main_k + 1
            /\ main_pc' = main_pc
       ELSE /\ main_pc' = "send_sentinels"
            /\ main_k' = 0
            /\ UNCHANGED consumer_pc
    /\ UNCHANGED <<work_queue, result_queue, total_items, producer_pc,
                   producer_i, consumer_count, processed, sentinels_put,
                   sentinels_got, results_put, notPC>>

\* main: for _ in range(num_consumers - 1): work_queue.put(None)
MainSendSentinel ==
    /\ main_pc = "send_sentinels"
    /\ IF main_k < MainSentinels
       THEN /\ ~QueueFull(work_queue)
            /\ work_queue' = Append(work_queue, None)
            /\ sentinels_put' = sentinels_put + 1
            /\ main_k' = main_k + 1
            /\ main_pc' = main_pc
       ELSE /\ main_pc' = "join_producer"
            /\ main_k' = 0
            /\ UNCHANGED <<work_queue, sentinels_put>>
    /\ UNCHANGED <<result_queue, total_items, producer_pc, producer_i,
                   consumer_pc, consumer_count, processed, sentinels_got,
                   results_put, notPC>>

\* main: producer_proc.join()
MainJoinProducer ==
    /\ main_pc = "join_producer"
    /\ producer_pc = "exited"
    /\ main_pc' = "join_consumers"
    /\ main_k' = 0
    /\ UNCHANGED <<work_queue, result_queue, total_items, producer_pc,
                   producer_i, consumer_pc, consumer_count, processed,
                   sentinels_put, sentinels_got, results_put, notPC>>

\* main: for c in consumers: c.join()
MainJoinConsumer ==
    /\ main_pc = "join_consumers"
    /\ IF main_k < NumConsumers
       THEN /\ consumer_pc[main_k + 1] = "exited"
            /\ main_k' = main_k + 1
            /\ main_pc' = main_pc
       ELSE /\ main_pc' = "collect"
            /\ main_k' = 0
    /\ UNCHANGED <<work_queue, result_queue, total_items, producer_pc,
                   producer_i, consumer_pc, consumer_count, processed,
                   sentinels_put, sentinels_got, results_put, notPC>>

\* main: for _ in range(num_consumers): pid, count, value = result_queue.get()
MainCollect ==
    /\ main_pc = "collect"
    /\ IF main_k < NumConsumers
       THEN /\ result_queue /= <<>>
            /\ total_items' = total_items + Head(result_queue)[2]
            /\ result_queue' = Tail(result_queue)
            /\ main_k' = main_k + 1
            /\ main_pc' = main_pc
       ELSE /\ main_pc' = "done"
            /\ main_k' = 0
            /\ UNCHANGED <<result_queue, total_items>>
    /\ UNCHANGED <<work_queue, producer_pc, producer_i, consumer_pc,
                   consumer_count, processed, sentinels_put, sentinels_got,
                   results_put, notPC>>

\* producer: for i in range(num_items): queue.put((i, item))
ProducerPut ==
    /\ producer_pc = "run"
    /\ IF ProducerLoopEnd(producer_i)
       THEN /\ producer_pc' = "sentinel"
            /\ UNCHANGED <<work_queue, producer_i>>
       ELSE /\ ~QueueFull(work_queue)
            /\ work_queue' = Append(work_queue, producer_i)
            /\ producer_i' = producer_i + 1
            /\ producer_pc' = producer_pc
    /\ UNCHANGED <<result_queue, main_pc, main_k, total_items, consumer_pc,
                   consumer_count, processed, sentinels_put, sentinels_got,
                   results_put, notPC>>

\* producer: queue.put(None), then the process exits
ProducerSentinel ==
    /\ producer_pc = "sentinel"
    /\ ~QueueFull(work_queue)
    /\ work_queue' = Append(work_queue, None)
    /\ sentinels_put' = sentinels_put + 1
    /\ producer_pc' = "exited"
    /\ UNCHANGED <<result_queue, main_pc, main_k, total_items, producer_i,
                   consumer_pc, consumer_count, processed, sentinels_got,
                   results_put, notPC>>

\* consumer: item = queue.get(); if item is None: break; ...; count += 1
ConsumerGet(c) ==
    /\ consumer_pc[c] = "get"
    /\ work_queue /= <<>>
    /\ LET item == work_queue[GetIndex(work_queue)] IN
       /\ work_queue' = RemoveAt(work_queue, GetIndex(work_queue))
       /\ IF item = None
          THEN /\ consumer_pc' = [consumer_pc EXCEPT ![c] = "result"]
               /\ sentinels_got' = [sentinels_got EXCEPT ![c] = @ + 1]
               /\ UNCHANGED <<consumer_count, processed>>
          ELSE /\ consumer_count' = [consumer_count EXCEPT ![c] = @ + 1]
               /\ processed' = [processed EXCEPT ![item] = @ + 1]
               /\ UNCHANGED <<consumer_pc, sentinels_got>>
    /\ UNCHANGED <<result_queue, main_pc, main_k, total_items, producer_pc,
                   producer_i, sentinels_put, results_put, notPC>>

\* consumer: result_queue.put((os.getpid(), count, total)), then it exits
ConsumerResult(c) ==
    /\ consumer_pc[c] = "result"
    /\ result_queue' = Append(result_queue, <<c, consumer_count[c]>>)
    /\ results_put' = [results_put EXCEPT ![c] = @ + 1]
    /\ consumer_pc' = [consumer_pc EXCEPT ![c] = "exited"]
    /\ UNCHANGED <<work_queue, main_pc, main_k, total_items, producer_pc,
                   producer_i, consumer_count, processed, sentinels_put,
                   sentinels_got, notPC>>

PCMain ==
    \/ MainStartProducer
    \/ MainStartConsumer
    \/ MainSendSentinel
    \/ MainJoinProducer
    \/ MainJoinConsumer
    \/ MainCollect

PCProducer == ProducerPut \/ ProducerSentinel

PCConsumer(c) == ConsumerGet(c) \/ ConsumerResult(c)

PCNext ==
    \/ PCMain
    \/ PCProducer
    \/ \E c \in Consumers : PCConsumer(c)

SpecPC == PCInit /\ [][PCNext]_vars

\* Every process that can take a step eventually takes one (the operating
\* system schedules every runnable process).
SpecPCFair ==
    /\ SpecPC
    /\ WF_vars(PCMain)
    /\ WF_vars(PCProducer)
    /\ \A c \in Consumers : WF_vars(PCConsumer(c))

Items == 0..(NumItems - 1)

\* C1: on every interleaving no work item is ever processed twice, and once
\* main has collected the consumers' results every one of the num_items
\* items has been dequeued and processed by exactly one consumer and the
\* per-consumer counts main has summed equal num_items.
C1_EachItemProcessedOnce ==
    /\ \A i \in Items : processed[i] <= 1
    /\ main_pc = "done" =>
          /\ \A i \in Items : processed[i] = 1
          /\ total_items = NumItems

\* main has finished and the work was shared by at least two consumers
C1_Witness ==
    /\ main_pc = "done"
    /\ total_items = NumItems
    /\ \E c, d \in Consumers :
          c /= d /\ consumer_count[c] > 0 /\ consumer_count[d] > 0

\* C2: under fair scheduling producer_consumer_example terminates: never
\* more than num_consumers sentinels are put, no consumer dequeues more than
\* one sentinel or puts more than one result, and eventually main is done
\* with the producer exited, exactly num_consumers sentinels put, and every
\* consumer having dequeued one sentinel and put one result tuple.
C2_Terminates ==
    /\ [](/\ sentinels_put <= NumConsumers
          /\ \A c \in Consumers :
                sentinels_got[c] <= 1 /\ results_put[c] <= sentinels_got[c])
    /\ <>(/\ main_pc = "done"
          /\ producer_pc = "exited"
          /\ sentinels_put = NumConsumers
          /\ \A c \in Consumers :
                /\ consumer_pc[c] = "exited"
                /\ sentinels_got[c] = 1
                /\ results_put[c] = 1)

\* main is done after the producer had to wait for room in the work queue:
\* every joined process exited and all the sentinels were used up
C2_Witness ==
    /\ main_pc = "done"
    /\ sentinels_put = NumConsumers
    /\ work_queue = <<>>
    /\ result_queue = <<>>

\* C20: a consumer dequeues a sentinel and leaves its loop only after the
\* producer has put all num_items items, so every consumer stays available
\* for the whole production phase.
C20_SentinelAfterProduction ==
    \A c \in Consumers :
        sentinels_got[c] >= 1 => ProducerLoopEnd(producer_i)

\* what does hold: while the producer has not exited, fewer than
\* num_consumers consumers have dequeued a sentinel
PCSomeConsumerStays ==
    producer_pc /= "exited" =>
        \E c \in Consumers : sentinels_got[c] = 0

(***************************************************************************)
(* python/3_multiprocessing_example.py: shared_memory_example and          *)
(* worker_with_shared_memory.                                              *)
(*                                                                         *)
(* local_sum is a Python int (unbounded) and arr[0] is a C double          *)
(* (typecode 'd').  With n = 10,000,000 the sums pass 2^53, so the values  *)
(* are kept here as natural numbers in base 2^15, least significant limb   *)
(* first and without leading zero limbs (zero is the empty sequence), and  *)
(* a value stored in arr[0] is rounded as a double is.                     *)
(***************************************************************************)
\* n = 10_000_000
ShmN == 10000000
\* the significand of a C double has 53 bits
DoubleBits == 53

BigBase == 2 ^ 15

RECURSIVE BigNorm(_)
BigNorm(a) ==
    IF a = <<>> THEN <<>>
    ELSE IF a[Len(a)] = 0 THEN BigNorm(SubSeq(a, 1, Len(a) - 1))
    ELSE a

RECURSIVE BigFromInt(_)
BigFromInt(n) ==
    IF n = 0 THEN <<>> ELSE <<n % BigBase>> \o BigFromInt(n \div BigBase)

RECURSIVE BigAddC(_, _, _)
BigAddC(a, b, carry) ==
    IF a = <<>> /\ b = <<>>
    THEN (IF carry = 0 THEN <<>> ELSE <<carry>>)
    ELSE LET x == IF a = <<>> THEN 0 ELSE Head(a)
             y == IF b = <<>> THEN 0 ELSE Head(b)
             t == x + y + carry
         IN <<t % BigBase>> \o
            BigAddC(IF a = <<>> THEN <<>> ELSE Tail(a),
                    IF b = <<>> THEN <<>> ELSE Tail(b),
                    t \div BigBase)

BigAdd(a, b) == BigNorm(BigAddC(a, b, 0))

RECURSIVE BigSubB(_, _, _)
BigSubB(a, b, borrow) ==
    IF a = <<>> THEN <<>>
    ELSE LET y == IF b = <<>> THEN 0 ELSE Head(b)
             t == Head(a) - y - borrow
         IN <<t % BigBase>> \o
            BigSubB(Tail(a), IF b = <<>> THEN <<>> ELSE Tail(b),
                    IF t < 0 THEN 1 ELSE 0)

\* a - b, for a >= b
BigSub(a, b) == BigNorm(BigSubB(a, b, 0))

RECURSIVE BigMulLimb(_, _, _)
BigMulLimb(a, m, carry) ==
    IF a = <<>>
    THEN (IF carry = 0 THEN <<>> ELSE <<carry>>)
    ELSE LET t == Head(a) * m + carry
         IN <<t % BigBase>> \o BigMulLimb(Tail(a), m, t \div BigBase)

RECURSIVE BigMul(_, _)
BigMul(a, b) ==
    IF b = <<>> THEN <<>>
    ELSE BigAdd(BigMulLimb(a, Head(b), 0),
                BigNorm(<<0>> \o BigMul(a, Tail(b))))

RECURSIVE BigDivLimb(_, _, _)
\* the quotient's limbs, most significant first, of the limbs `a` (most
\* significant first) divided by d < 2^15
BigDivLimb(a, d, rem) ==
    IF a = <<>> THEN <<>>
    ELSE LET t == rem * BigBase + Head(a)
         IN <<t \div d>> \o BigDivLimb(Tail(a), d, t % d)

Reverse(a) == [k \in 1..Len(a) |-> a[Len(a) + 1 - k]]

\* a \div d for a small divisor d
BigDiv(a, d) == BigNorm(Reverse(BigDivLimb(Reverse(a), d, 0)))

RECURSIVE BitLen(_)
\* the number of bits of the integer n >= 0
BitLen(n) == IF n = 0 THEN 0 ELSE 1 + BitLen(n \div 2)

BigBitLen(a) ==
    IF a = <<>> THEN 0 ELSE 15 * (Len(a) - 1) + BitLen(a[Len(a)])

\* the limbs 1 and 2 of a as one integer: a mod 2^30
BigLow(a) ==
    (IF Len(a) >= 1 THEN a[1] ELSE 0) + (IF Len(a) >= 2 THEN a[2] * BigBase ELSE 0)

\* float(a): the double nearest to the natural number a, ties to even.  Both
\* are integers here; written for a < 2^(53 + 29).
ToDouble(a) ==
    LET shift == BigBitLen(a) - DoubleBits IN
    IF shift <= 0 THEN a
    ELSE LET low  == BigLow(a)
             r    == low % (2 ^ shift)
             odd  == (low \div (2 ^ shift)) % 2 = 1
             half == 2 ^ (shift - 1)
             down == BigSub(a, BigFromInt(r))
         IN IF r > half \/ (r = half /\ odd)
            THEN BigAdd(down, BigFromInt(2 ^ shift))
            ELSE down

\* x + y for a double x and a Python int y: float.__add__ converts y to a
\* double and returns the correctly rounded sum
DoubleAddInt(x, y) == ToDouble(BigAdd(x, ToDouble(y)))

\* sum(i * i for i in range(m)) = (m - 1) m (2m - 1) / 6
SquaresBelow(m) ==
    IF m = 0 THEN <<>>
    ELSE BigDiv(BigMul(BigMul(BigFromInt(m - 1), BigFromInt(m)),
                       BigFromInt(2 * m - 1)), 6)

\* local_sum after: for i in range(start, end): local_sum += i * i
LocalSum(start, end) ==
    IF end <= start THEN <<>> ELSE BigSub(SquaresBelow(end), SquaresBelow(start))

RECURSIVE LocalSumLoop(_, _)
\* the same loop, run step by step on machine integers (for small ranges)
LocalSumLoop(start, end) ==
    IF end <= start THEN 0 ELSE start * start + LocalSumLoop(start + 1, end)

Workers == 1..shm_nproc

\* chunk_size = n // num_processes
ChunkSize == ShmN \div shm_nproc
\* start_idx and end_idx of worker w (the loop's i is w - 1)
StartIdx(w) == (w - 1) * ChunkSize
EndIdx(w) == IF w - 1 < shm_nproc - 1 THEN StartIdx(w) + ChunkSize ELSE ShmN

\* `with lock:` is entered only when no process holds the lock
LockFreeIgnored(l) == TRUE
LockFree(l) == l = 0

ShmInit ==
    /\ shm_nproc \in 1..MaxProcs
    /\ shm_arr = <<>>
    /\ shm_lock = 0
    /\ shm_main_pc = "start"
    /\ shm_main_k = 0
    /\ worker_pc = [w \in 1..shm_nproc |-> "unstarted"]
    /\ worker_sum = [w \in 1..shm_nproc |-> <<>>]
    /\ worker_tmp = [w \in 1..shm_nproc |-> <<>>]
    /\ shm_order = <<>>
    /\ Idle("shm")

\* main: for i in range(num_processes): p = Process(...); p.start()
ShmMainStart ==
    /\ shm_main_pc = "start"
    /\ IF shm_main_k < shm_nproc
       THEN /\ worker_pc' = [worker_pc EXCEPT ![shm_main_k + 1] = "sum"]
            /\ shm_main_k' = shm_main_k + 1
            /\ shm_main_pc' = shm_main_pc
       ELSE /\ shm_main_pc' = "join"
            /\ shm_main_k' = 0
            /\ UNCHANGED worker_pc
    /\ UNCHANGED <<shm_nproc, shm_arr, shm_lock, worker_sum, worker_tmp,
                   shm_order, notShm>>

\* main: for p in processes: p.join()
ShmMainJoin ==
    /\ shm_main_pc = "join"
    /\ IF shm_main_k < shm_nproc
       THEN /\ worker_pc[shm_main_k + 1] = "exited"
            /\ shm_main_k' = shm_main_k + 1
            /\ shm_main_pc' = shm_main_pc
       ELSE /\ shm_main_pc' = "done"
            /\ shm_main_k' = 0
    /\ UNCHANGED <<shm_nproc, shm_arr, shm_lock, worker_pc, worker_sum,
                   worker_tmp, shm_order, notShm>>

\* worker: local_sum = 0; for i in range(start, end): local_sum += i * i
WorkerSum(w) ==
    /\ worker_pc[w] = "sum"
    /\ worker_sum' = [worker_sum EXCEPT ![w] = LocalSum(StartIdx(w), EndIdx(w))]
    /\ worker_pc' = [worker_pc EXCEPT ![w] = "acquire"]
    /\ UNCHANGED <<shm_nproc, shm_arr, shm_lock, shm_main_pc, shm_main_k,
                   worker_tmp, shm_order, notShm>>

\* worker: with lock:  (lock.__enter__)
WorkerAcquire(w) ==
    /\ worker_pc[w] = "acquire"
    /\ LockFree(shm_lock)
    /\ shm_lock' = w
    /\ shm_order' = Append(shm_order, w)
    /\ worker_pc' = [worker_pc EXCEPT ![w] = "read"]
    /\ UNCHANGED <<shm_nproc, shm_arr, shm_main_pc, shm_main_k, worker_sum,
                   worker_tmp, notShm>>

\* worker: arr[0] += local_sum, first half: arr.__getitem__(0)
WorkerRead(w) ==
    /\ worker_pc[w] = "read"
    /\ worker_tmp' = [worker_tmp EXCEPT ![w] = shm_arr]
    /\ worker_pc' = [worker_pc EXCEPT ![w] = "write"]
    /\ UNCHANGED <<shm_nproc, shm_arr, shm_lock, shm_main_pc, shm_main_k,
                   worker_sum, shm_order, notShm>>

\* worker: arr[0] += local_sum, second half: arr.__setitem__(0, tmp + local_sum)
WorkerWrite(w) ==
    /\ worker_pc[w] = "write"
    /\ shm_arr' = DoubleAddInt(worker_tmp[w], worker_sum[w])
    /\ worker_pc' = [worker_pc EXCEPT ![w] = "release"]
    /\ UNCHANGED <<shm_nproc, shm_lock, shm_main_pc, shm_main_k, worker_sum,
                   worker_tmp, shm_order, notShm>>

\* worker: the with block is left (lock.__exit__) and the process exits
WorkerRelease(w) ==
    /\ worker_pc[w] = "release"
    /\ shm_lock' = IF shm_lock = w THEN 0 ELSE shm_lock
    /\ worker_pc' = [worker_pc EXCEPT ![w] = "exited"]
    /\ UNCHANGED <<shm_nproc, shm_arr, shm_main_pc, shm_main_k, worker_sum,
                   worker_tmp, shm_order, notShm>>

ShmNext ==
    \/ ShmMainStart
    \/ ShmMainJoin
    \/ \E w \in Workers :
         \/ WorkerSum(w)
         \/ WorkerAcquire(w)
         \/ WorkerRead(w)
         \/ WorkerWrite(w)
         \/ WorkerRelease(w)

SpecShm == ShmInit /\ [][ShmNext]_vars

RECURSIVE BigSum(_, _)
\* the exact sum of the local sums of the workers 1..k
BigSum(sums, k) == IF k = 0 THEN <<>> ELSE BigAdd(BigSum(sums, k - 1), sums[k])

RECURSIVE DoubleFold(_, _, _)
\* arr[0] after the workers order[1..k] have done arr[0] += local_sum in turn
DoubleFold(sums, order, k) ==
    IF k = 0 THEN <<>>
    ELSE DoubleAddInt(DoubleFold(sums, order, k - 1), sums[order[k]])

InUpdate(w) == worker_pc[w] \in {"read", "write", "release"}

\* C3 (as stated): no two workers are ever inside the update of arr[0] at the
\* same time, and after all workers have been joined arr[0] equals the sum
\* of every worker's local_sum.
C3_SumOfLocalSums ==
    /\ \A v, w \in Workers : InUpdate(v) /\ InUpdate(w) => v = w
    /\ shm_main_pc = "done" => shm_arr = BigSum(worker_sum, shm_nproc)

\* C3 (amended): no two workers are ever inside the update of arr[0] at the
\* same time and no update is lost: after all workers have been joined every
\* worker has taken the lock exactly once and arr[0] is the result of adding
\* the workers' local sums to 0.0 one after the other, in the order the
\* workers took the lock, each addition rounded to a double.
C3_NoLostUpdate ==
    /\ \A v, w \in Workers : InUpdate(v) /\ InUpdate(w) => v = w
    /\ \A w \in Workers : InUpdate(w) => shm_lock = w
    /\ shm_main_pc = "done" =>
          /\ Len(shm_order) = shm_nproc
          /\ \A w \in Workers : \E k \in 1..shm_nproc : shm_order[k] = w
          /\ shm_arr = DoubleFold(worker_sum, shm_order, shm_nproc)

\* all of several workers have been joined, and the lock was not taken in
\* the order the workers were started
C3_Witness ==
    /\ shm_main_pc = "done"
    /\ shm_nproc >= 3
    /\ shm_order[1] /= 1
    /\ shm_arr /= <<>>

(***************************************************************************)
(* python/1_basic_cpu_profiling.py: fibonacci_recursive and                *)
(* fibonacci_iterative.                                                    *)
(***************************************************************************)
RECURSIVE fibonacci_recursive(_)
fibonacci_recursive(n) ==
    IF n <= 1 THEN n
    ELSE fibonacci_recursive(n - 1) + fibonacci_recursive(n - 2)

\* range(2, n + 1) is exhausted at position i
FibRangeEndShort(i, n) == i >= n
FibRangeEnd(i, n) == i >= n + 1

FibInit ==
    /\ fib_n \in 0..MaxFibN
    /\ fib_pc = "entry"
    /\ fib_i = 0
    /\ fib_a = 0
    /\ fib_b = 0
    /\ fib_ret = 0
    /\ Idle("fib")

\* if n <= 1: return n;  a, b = 0, 1
FibEntry ==
    /\ fib_pc = "entry"
    /\ IF fib_n <= 1
       THEN /\ fib_ret' = fib_n
            /\ fib_pc' = "return"
            /\ UNCHANGED <<fib_a, fib_b, fib_i>>
       ELSE /\ fib_a' = 0
            /\ fib_b' = 1
            /\ fib_i' = 2
            /\ fib_pc' = "loop"
            /\ UNCHANGED fib_ret
    /\ UNCHANGED <<fib_n, notFib>>

\* for _ in range(2, n + 1): a, b = b, a + b
FibLoop ==
    /\ fib_pc = "loop"
    /\ ~FibRangeEnd(fib_i, fib_n)
    /\ fib_a' = fib_b
    /\ fib_b' = fib_a + fib_b
    /\ fib_i' = fib_i + 1
    /\ UNCHANGED <<fib_n, fib_pc, fib_ret, notFib>>

\* return b
FibReturn ==
    /\ fib_pc = "loop"
    /\ FibRangeEnd(fib_i, fib_n)
    /\ fib_ret' = fib_b
    /\ fib_pc' = "return"
    /\ UNCHANGED <<fib_n, fib_i, fib_a, fib_b, notFib>>

FibNext == FibEntry \/ FibLoop \/ FibReturn

SpecFib == FibInit /\ [][FibNext]_vars

\* the Fibonacci numbers: F(0) = 0, F(1) = 1, F(n) = F(n-1) + F(n-2)
Fibonacci[n \in Nat] ==
    IF n = 0 THEN 0 ELSE IF n = 1 THEN 1 ELSE Fibonacci[n - 1] + Fibonacci[n - 2]

\* C4: for every n >= 0, fibonacci_iterative(n) returns the n-th Fibonacci
\* number, which is also what fibonacci_recursive(n) returns; and
\* fibonacci_iterative(10) is 55.
C4_FibonacciIterative ==
    fib_pc = "return" =>
        /\ fib_ret = Fibonacci[fib_n]
        /\ fib_ret = fibonacci_recursive(fib_n)
        /\ (fib_n = 10 => fib_ret = 55)

\* fibonacci_iterative(10) has gone through its loop and returned 55
C4_Witness == fib_pc = "return" /\ fib_n = 10 /\ fib_i = 11 /\ fib_ret = 55

(***************************************************************************)
(* python/1_basic_cpu_profiling.py: prime_sieve.                           *)
(***************************************************************************)
\* int(math.sqrt(n)) for n >= 0
IntSqrt(n) == CHOOSE k \in 0..n : k * k <= n /\ (k + 1) * (k + 1) > n

\* the last value of i in range(2, int(math.sqrt(limit)) + 1)
SieveOuterLastAll(limit) == limit
SieveOuterLast(limit) == IntSqrt(limit)

\* the first j the inner loop crosses out: range(i*i, limit + 1, i)
SieveInnerFirstFromI(i) == i
SieveInnerFirst(i) == i * i

SieveInit ==
    /\ sieve_limit \in 0..MaxLimit
    /\ sieve_pc = "entry"
    /\ sieve = <<>>
    /\ sieve_i = 0
    /\ sieve_j = 0
    /\ sieve_ret = <<>>
    /\ sieve_exc = ""
    /\ Idle("sieve")

\* sieve = [True] * (limit + 1);  sieve[0] = sieve[1] = False
\* (the targets are assigned left to right; an index that is not in the
\* list raises IndexError)
SieveEntry ==
    /\ sieve_pc = "entry"
    /\ LET s0 == [k \in 1..(sieve_limit + 1) |-> TRUE]
           s1 == [s0 EXCEPT ![1] = FALSE]
       IN IF 2 \in DOMAIN s1
          THEN /\ sieve' = [s1 EXCEPT ![2] = FALSE]
               /\ sieve_i' = 2
               /\ sieve_pc' = "outer"
               /\ UNCHANGED sieve_exc
          ELSE /\ sieve' = s1
               /\ sieve_exc' = "IndexError"
               /\ sieve_pc' = "raise"
               /\ UNCHANGED sieve_i
    /\ UNCHANGED <<sieve_limit, sieve_j, sieve_ret, notSieve>>

\* for i in range(2, int(math.sqrt(limit)) + 1): if sieve[i]: ...
SieveOuter ==
    /\ sieve_pc = "outer"
    /\ IF sieve_i <= SieveOuterLast(sieve_limit)
       THEN IF sieve[sieve_i + 1]
            THEN /\ sieve_j' = SieveInnerFirst(sieve_i)
                 /\ sieve_pc' = "inner"
                 /\ UNCHANGED sieve_i
            ELSE /\ sieve_i' = sieve_i + 1
                 /\ UNCHANGED <<sieve_j, sieve_pc>>
       ELSE /\ sieve_pc' = "collect"
            /\ UNCHANGED <<sieve_i, sieve_j>>
    /\ UNCHANGED <<sieve_limit, sieve, sieve_ret, sieve_exc, notSieve>>

\* for j in range(i*i, limit + 1, i): sieve[j] = False
SieveInner ==
    /\ sieve_pc = "inner"
    /\ IF sieve_j < sieve_limit + 1
       THEN /\ sieve' = [sieve EXCEPT ![sieve_j + 1] = FALSE]
            /\ sieve_j' = sieve_j + sieve_i
            /\ UNCHANGED <<sieve_i, sieve_pc>>
       ELSE /\ sieve_i' = sieve_i + 1
            /\ sieve_pc' = "outer"
            /\ UNCHANGED <<sieve, sieve_j>>
    /\ UNCHANGED <<sieve_limit, sieve_ret, sieve_exc, notSieve>>

RECURSIVE SieveCollect(_, _)
\* [i for i in range(k, limit + 1) if sieve[i]]
SieveCollect(s, k) ==
    IF k + 1 > Len(s) THEN <<>>
    ELSE (IF s[k + 1] THEN <<k>> ELSE <<>>) \o SieveCollect(s, k + 1)

\* return [i for i in range(2, limit + 1) if sieve[i]]
SieveReturn ==
    /\ sieve_pc = "collect"
    /\ sieve_ret' = SieveCollect(sieve, 2)
    /\ sieve_pc' = "return"
    /\ UNCHANGED <<sieve_limit, sieve, sieve_i, sieve_j, sieve_exc, notSieve>>

SieveNext == SieveEntry \/ SieveOuter \/ SieveInner \/ SieveReturn

SpecSieve == SieveInit /\ [][SieveNext]_vars

IsPrime(p) == p >= 2 /\ \A d \in 2..(p - 1) : p % d /= 0

RECURSIVE PrimesFrom(_, _)
\* the primes p with k <= p <= limit, in ascending order
PrimesFrom(k, limit) ==
    IF k > limit THEN <<>>
    ELSE (IF IsPrime(k) THEN <<k>> ELSE <<>>) \o PrimesFrom(k + 1, limit)

\* C5: for every limit >= 0, prime_sieve(limit) does not raise and returns
\* exactly the primes p with 2 <= p <= limit in strictly ascending order
\* (the empty list when limit < 2); prime_sieve(10) is [2, 3, 5, 7].
C5_PrimeSieve ==
    sieve_pc \in {"return", "raise"} =>
        /\ sieve_pc = "return"
        /\ sieve_ret = PrimesFrom(2, sieve_limit)
        /\ (sieve_limit = 10 => sieve_ret = <<2, 3, 5, 7>>)

\* what prime_sieve does do: the claim's result for every limit >= 1, and
\* IndexError for limit = 0
SieveFromOne ==
    /\ sieve_pc = "raise" => sieve_limit = 0 /\ sieve_exc = "IndexError"
    /\ sieve_pc = "return" =>
          /\ sieve_limit >= 1
          /\ sieve_ret = PrimesFrom(2, sieve_limit)
          /\ (sieve_limit = 10 => sieve_ret = <<2, 3, 5, 7>>)

(***************************************************************************)
(* scripts/compare_results.py: parse_stats_file.                           *)
(*                                                                         *)
(* The stats file is text nsys wrote.  What the parser looks at is kept:   *)
(* for each label ("Duration:", "Total samples:", "Context switches:")     *)
(* whether it occurs and the characters that follow it, and the rows of    *)
(* the "Top Functions" table.  A text is a sequence of characters: "1"     *)
(* stands for a digit, "." for a dot and "x" for any other character.  An  *)
(* optional value is a sequence of length 0 (None) or 1.                   *)
(***************************************************************************)
TextChars == {"1", ".", "x"}
CountChars == {"1", "x"}

Texts(chars, maxlen) == UNION {[1..n -> chars] : n \in 0..maxlen}

\* the rows a "Top Functions" table can hold: the first word of the line
\* without its '%' signs, whether the line holds a '%', and how many
\* words it has
TopRows ==
    { [first |-> <<"1", ".", "1">>, percent |-> TRUE,  words |-> 2],
      [first |-> <<"x">>,           percent |-> TRUE,  words |-> 2],
      [first |-> <<"1">>,           percent |-> FALSE, words |-> 2],
      [first |-> <<"1">>,           percent |-> TRUE,  words |-> 1] }

IsDigit(ch) == ch = "1"

IsDot(ch) == ch = "."
IsOther(ch) == ~(IsDigit(ch) \/ IsDot(ch))

RECURSIVE DigitPrefix(_)
\* the longest prefix of digits: what (\d+) matches at the start of the text
DigitPrefix(text) ==
    IF text = <<>> \/ ~IsDigit(Head(text)) THEN <<>>
    ELSE <<Head(text)>> \o DigitPrefix(Tail(text))

RECURSIVE DecimalValue(_)
\* int(text) for a text of digits (every digit here is a 1)
DecimalValue(text) ==
    IF text = <<>> THEN 0
    ELSE 10 * DecimalValue(SubSeq(text, 1, Len(text) - 1)) + 1

\* re.search(r'Duration:\s*([\d.]+)\s*seconds', content): group(1), if any
DurationMatch(field) ==
    IF field = <<>> THEN <<>>
    ELSE IF field[1] /= <<>> /\ Len(SelectSeq(field[1], IsOther)) = 0 THEN field
    ELSE <<>>

\* re.search(r'<label>:\s*(\d+)', content): group(1), if any
CountMatch(field) ==
    IF field = <<>> THEN <<>>
    ELSE IF DigitPrefix(field[1]) /= <<>> THEN <<DigitPrefix(field[1])>>
    ELSE <<>>

\* float(text) succeeds: digits with at most one dot, and at least one digit
FloatAcceptsAnyDots(text) ==
    Len(SelectSeq(text, IsOther)) = 0 /\ Len(SelectSeq(text, IsDigit)) >= 1
FloatAccepts(text) ==
    /\ Len(SelectSeq(text, IsOther)) = 0
    /\ Len(SelectSeq(text, IsDot)) <= 1
    /\ Len(SelectSeq(text, IsDigit)) >= 1

RECURSIVE AfterDot(_)
AfterDot(text) ==
    IF text = <<>> THEN <<>>
    ELSE IF IsDot(Head(text)) THEN Tail(text) ELSE AfterDot(Tail(text))

\* float(text), as the digits read as an integer over 10^scale
FloatValue(text) ==
    [num   |-> DecimalValue(SelectSeq(text, IsDigit)),
     scale |-> Len(SelectSeq(AfterDot(text), IsDigit))]

DefaultStats ==
    [duration |-> <<>>, cpu_samples |-> 0, context_switches |-> 0,
     top_functions |-> <<>>, os_runtime_events |-> 0, nvtx_events |-> 0]

PsInit ==
    /\ ps_exists \in BOOLEAN
    /\ ps_content \in
         [duration : {<<>>} \cup {<<t>> : t \in Texts(TextChars, MaxTextLen)},
          samples  : {<<>>} \cup {<<t>> : t \in Texts(CountChars, MaxCountLen)},
          switches : {<<>>} \cup {<<t>> : t \in Texts(CountChars, MaxCountLen)},
          top      : {<<>>} \cup {<<rows>> : rows \in
                        UNION {[1..n -> TopRows] : n \in 0..MaxTopRows}}]
    /\ ps_pc = "entry"
    /\ ps_stats = DefaultStats
    /\ ps_row = 0
    /\ ps_exc = ""
    /\ Idle("ps")

\* stats = {...};  if not filepath.exists(): return stats;  content = f.read()
PsEntry ==
    /\ ps_pc = "entry"
    /\ ps_stats' = DefaultStats
    /\ ps_pc' = IF ps_exists THEN "duration" ELSE "return"
    /\ UNCHANGED <<ps_exists, ps_content, ps_row, ps_exc, notPs>>

\* duration_match = re.search(...);  stats['duration'] = float(group(1))
PsDuration ==
    /\ ps_pc = "duration"
    /\ LET m == DurationMatch(ps_content.duration) IN
       IF m = <<>>
       THEN /\ ps_pc' = "samples"
            /\ UNCHANGED <<ps_stats, ps_exc>>
       ELSE IF FloatAccepts(m[1])
       THEN /\ ps_stats' = [ps_stats EXCEPT !.duration = <<FloatValue(m[1])>>]
            /\ ps_pc' = "samples"
            /\ UNCHANGED ps_exc
       ELSE /\ ps_exc' = "ValueError"
            /\ ps_pc' = "raise"
            /\ UNCHANGED ps_stats
    /\ UNCHANGED <<ps_exists, ps_content, ps_row, notPs>>

\* samples_match = re.search(...);  stats['cpu_samples'] = int(group(1))
PsSamples ==
    /\ ps_pc = "samples"
    /\ LET m == CountMatch(ps_content.samples) IN
       ps_stats' = IF m = <<>> THEN ps_stats
                   ELSE [ps_stats EXCEPT !.cpu_samples = DecimalValue(m[1])]
    /\ ps_pc' = "switches"
    /\ UNCHANGED <<ps_exists, ps_content, ps_row, ps_exc, notPs>>

\* ctx_match = re.search(...);  stats['context_switches'] = int(group(1))
\* if 'Top Functions' in content: ...
PsSwitches ==
    /\ ps_pc = "switches"
    /\ LET m == CountMatch(ps_content.switches) IN
       ps_stats' = IF m = <<>> THEN ps_stats
                   ELSE [ps_stats EXCEPT !.context_switches = DecimalValue(m[1])]
    /\ IF ps_content.top = <<>>
       THEN ps_pc' = "return" /\ UNCHANGED ps_row
       ELSE ps_pc' = "rows" /\ ps_row' = 1
    /\ UNCHANGED <<ps_exists, ps_content, ps_exc, notPs>>

\* for line in func_section.split('\n')[2:]: ... (one row of the table)
PsRow ==
    /\ ps_pc = "rows"
    /\ LET rows == ps_content.top[1] IN
       IF ps_row > Len(rows)
       THEN /\ ps_pc' = "return"
            /\ UNCHANGED <<ps_stats, ps_row>>
       ELSE LET line == rows[ps_row] IN
            /\ ps_row' = ps_row + 1
            /\ ps_pc' = ps_pc
            /\ ps_stats' =
                 IF line.percent /\ line.words >= 2 /\ FloatAccepts(line.first)
                 THEN [ps_stats EXCEPT !.top_functions =
                          Append(@, <<"function", FloatValue(line.first)>>)]
                 ELSE ps_stats
    /\ UNCHANGED <<ps_exists, ps_content, ps_exc, notPs>>

PsNext == PsEntry \/ PsDuration \/ PsSamples \/ PsSwitches \/ PsRow

SpecPs == PsInit /\ [][PsNext]_vars

\* C6: parse_stats_file never raises; when the file does not exist it
\* returns the default record; when it exists every field whose pattern does
\* not match keeps its default and every matched field is set.
C6_ParseDegradesGracefully ==
    ps_pc \in {"return", "raise"} =>
        /\ ps_pc = "return"
        /\ ~ps_exists => ps_stats = DefaultStats
        /\ ps_exists =>
             /\ (DurationMatch(ps_content.duration) = <<>>)
                   = (ps_stats.duration = <<>>)
             /\ CountMatch(ps_content.samples) = <<>>
                   => ps_stats.cpu_samples = 0
             /\ CountMatch(ps_content.samples) /= <<>>
                   => ps_stats.cpu_samples > 0
             /\ CountMatch(ps_content.switches) = <<>>
                   => ps_stats.context_switches = 0
             /\ CountMatch(ps_content.switches) /= <<>>
                   => ps_stats.context_switches > 0
             /\ ps_content.top = <<>> => ps_stats.top_functions = <<>>
             /\ ps_stats.os_runtime_events = 0
             /\ ps_stats.nvtx_events = 0

\* what parse_stats_file does do: it raises only ValueError, and only for a
\* matched duration text that float() rejects; otherwise the claim holds
PsRaisesOnlyOnDuration ==
    /\ ps_pc = "raise" =>
          /\ ps_exc = "ValueError"
          /\ ps_exists
          /\ DurationMatch(ps_content.duration) /= <<>>
          /\ ~FloatAccepts(ps_content.duration[1])
    /\ ps_pc = "return" => C6_ParseDegradesGracefully

(***************************************************************************)
(* scripts/generate_visual_report.py: NSysReportGenerator.extract_stats    *)
(* and the part of generate_report that calls it.                          *)
(*                                                                         *)
(* What `nsys stats <profile>` does is the environment's choice: the       *)
(* executable may be missing (subprocess.run raises FileNotFoundError), or *)
(* it runs and exits non-zero ("nonzero": check=True raises                *)
(* CalledProcessError), or exits 0 with an output that holds a readable    *)
(* "Duration:" line ("duration") or none ("plain").                        *)
(***************************************************************************)
NsysOutcomes == {"duration", "plain", "nonzero"}

\* the stats record extract_stats starts from, but for 'name'
DefaultProfileStats ==
    [duration |-> <<>>, cpu_utilization |-> <<>>, top_functions |-> <<>>,
     context_switches |-> 0, samples |-> 0]

\* the exceptions the handler around subprocess.run catches
ExtractCatches == {"CalledProcessError"}

GrInit ==
    /\ gr_nsys_installed \in BOOLEAN
    /\ gr_profiles \in UNION {[1..n -> NsysOutcomes] : n \in 0..MaxProfiles}
    /\ gr_pc = "find"
    /\ gr_k = 0
    /\ gr_stats = DefaultProfileStats
    /\ gr_run = "none"
    /\ gr_errors = 0
    /\ gr_profiles_data = <<>>
    /\ gr_exc = ""
    /\ Idle("gr")

\* generate_report: profiles = self.find_profiles(); if not profiles: return
GrFind ==
    /\ gr_pc = "find"
    /\ IF gr_profiles = <<>>
       THEN gr_pc' = "return" /\ UNCHANGED gr_k
       ELSE gr_pc' = "extract" /\ gr_k' = 1
    /\ UNCHANGED <<gr_nsys_installed, gr_profiles, gr_stats, gr_run, gr_errors,
                   gr_profiles_data, gr_exc, notGr>>

\* extract_stats(profile): subprocess.run(['nsys', 'stats', ...], check=True),
\* the parse of its output, and the except clause
GrExtract ==
    /\ gr_pc = "extract"
    /\ LET raised == IF ~gr_nsys_installed THEN "FileNotFoundError"
                     ELSE IF gr_profiles[gr_k] = "nonzero"
                     THEN "CalledProcessError"
                     ELSE ""
       IN
       /\ gr_run' = IF raised = "" THEN "exit0" ELSE raised
       /\ IF raised = ""
          THEN /\ gr_stats' = IF gr_profiles[gr_k] = "duration"
                              THEN [DefaultProfileStats EXCEPT !.duration = <<1>>]
                              ELSE DefaultProfileStats
               /\ gr_pc' = "extracted"
               /\ UNCHANGED <<gr_errors, gr_exc>>
          ELSE IF raised \in ExtractCatches
          THEN /\ gr_stats' = DefaultProfileStats
               /\ gr_errors' = gr_errors + 1
               /\ gr_pc' = "extracted"
               /\ UNCHANGED gr_exc
          ELSE /\ gr_stats' = DefaultProfileStats
               /\ gr_exc' = raised
               /\ gr_pc' = "raise"
               /\ UNCHANGED gr_errors
    /\ UNCHANGED <<gr_nsys_installed, gr_profiles, gr_k, gr_profiles_data,
                   notGr>>

\* generate_report: if stats['duration'] is not None: profiles_data.append(stats)
\* and, after the last profile, if not profiles_data: return
GrCollect ==
    /\ gr_pc = "extracted"
    /\ LET data == IF gr_stats.duration /= <<>>
                   THEN Append(gr_profiles_data, gr_stats)
                   ELSE gr_profiles_data
       IN
       /\ gr_profiles_data' = data
       /\ IF gr_k < Len(gr_profiles)
          THEN gr_k' = gr_k + 1 /\ gr_pc' = "extract"
          ELSE /\ gr_pc' = IF data = <<>> THEN "return" ELSE "charts"
               /\ UNCHANGED gr_k
    /\ UNCHANGED <<gr_nsys_installed, gr_profiles, gr_stats, gr_run, gr_errors,
                   gr_exc, notGr>>

GrNext == GrFind \/ GrExtract \/ GrCollect

SpecGr == GrInit /\ [][GrNext]_vars

\* C7: whenever the `nsys stats` invocation of extract_stats fails (non-zero
\* exit, or the executable cannot be started), extract_stats reports the
\* error and returns the stats record with its default fields, and no
\* exception propagates to generate_report.
C7_SubprocessFailuresCaught ==
    /\ gr_exc = ""
    /\ gr_pc /= "raise"
    /\ gr_pc = "extracted" /\ gr_run /= "exit0" =>
          gr_stats = DefaultProfileStats /\ gr_errors >= 1

\* what extract_stats does do: a non-zero exit is reported and gives the
\* default record; a missing executable raises FileNotFoundError through
\* extract_stats and generate_report
GrOnlyExitStatusCaught ==
    /\ gr_pc = "extracted" /\ gr_run /= "exit0" =>
          /\ gr_run = "CalledProcessError"
          /\ gr_stats = DefaultProfileStats
          /\ gr_errors >= 1
    /\ gr_pc = "raise" <=> gr_exc = "FileNotFoundError"
    /\ gr_pc = "raise" => ~gr_nsys_installed

(***************************************************************************)
(* scripts/compare_results.py: the import guard, compare_implementations,  *)
(* generate_performance_report, create_visualizations and main.            *)
(*                                                                         *)
(* The duration parse_stats_file found in a stats file is 0 (None), or     *)
(* a number of seconds: 1 stands for 0.0 and 2, 3 for positive durations.  *)
(***************************************************************************)
Durations == 0..3
Pairs == 1..NumPairs

\* a duration is truthy: neither None nor 0.0
Truthy(d) == d >= 2

\* the names the module's try block has bound: numpy is imported after
\* matplotlib in the same try block
BoundNames(mpl) == IF mpl THEN {"plt", "np"} ELSE {}

CrInit ==
    /\ cr_matplotlib \in BOOLEAN
    /\ cr_results_dir \in BOOLEAN
    /\ cr_py \in [Pairs -> Durations]
    /\ cr_cpp \in [Pairs -> Durations]
    /\ cr_pc = "main"
    /\ cr_comparisons = {}
    /\ cr_report = <<>>
    /\ cr_files = {}
    /\ cr_exit = -1
    /\ cr_exc = ""
    /\ Idle("cr")

\* main: if not results_dir.exists(): sys.exit(1)
\* comparisons = compare_implementations(results_dir)
\* if not comparisons: sys.exit(1)
CrCompare ==
    /\ cr_pc = "main"
    /\ IF ~cr_results_dir
       THEN /\ cr_exit' = 1
            /\ cr_pc' = "exit"
            /\ UNCHANGED cr_comparisons
       ELSE LET comps == {p \in Pairs : Truthy(cr_py[p]) /\ Truthy(cr_cpp[p])}
            IN /\ cr_comparisons' = comps
               /\ IF comps = {}
                  THEN cr_exit' = 1 /\ cr_pc' = "exit"
                  ELSE cr_pc' = "report" /\ UNCHANGED cr_exit
    /\ UNCHANGED <<cr_matplotlib, cr_results_dir, cr_py, cr_cpp, cr_report,
                   cr_files, cr_exc, notCr>>

\* report = generate_performance_report(comparisons)
\* (speedups is not empty here, so np.mean(speedups) is evaluated)
CrReport ==
    /\ cr_pc = "report"
    /\ IF "np" \in BoundNames(cr_matplotlib)
       THEN /\ cr_report' = <<"summary">> \o
                   [k \in 1..Cardinality(cr_comparisons) |-> "example"]
            /\ cr_pc' = "write"
            /\ UNCHANGED cr_exc
       ELSE /\ cr_exc' = "NameError"
            /\ cr_pc' = "raise"
            /\ UNCHANGED cr_report
    /\ UNCHANGED <<cr_matplotlib, cr_results_dir, cr_py, cr_cpp,
                   cr_comparisons, cr_files, cr_exit, notCr>>

\* with open(report_path, 'w') as f: f.write(report)
CrWrite ==
    /\ cr_pc = "write"
    /\ cr_files' = cr_files \cup {"detailed_comparison_report.md"}
    /\ cr_pc' = "charts"
    /\ UNCHANGED <<cr_matplotlib, cr_results_dir, cr_py, cr_cpp,
                   cr_comparisons, cr_report, cr_exit, cr_exc, notCr>>

\* create_visualizations(comparisons, results_dir), the summary, and the end
CrCharts ==
    /\ cr_pc = "charts"
    /\ cr_files' = IF cr_matplotlib
                   THEN cr_files \cup {"performance_comparison.png"}
                   ELSE cr_files
    /\ cr_pc' = "done"
    /\ cr_exit' = 0
    /\ UNCHANGED <<cr_matplotlib, cr_results_dir, cr_py, cr_cpp,
                   cr_comparisons, cr_report, cr_exc, notCr>>

CrNext == CrCompare \/ CrReport \/ CrWrite \/ CrCharts

SpecCr == CrInit /\ [][CrNext]_vars

CrEnded == cr_pc \in {"done", "exit", "raise"}

CrValidPair == \E p \in Pairs : Truthy(cr_py[p]) /\ Truthy(cr_cpp[p])

\* C9: when matplotlib cannot be imported, main with a results directory
\* and at least one valid Python/C++ pair still builds the textual report
\* and writes detailed_comparison_report.md; only the charts are skipped.
C9_ReportWithoutMatplotlib ==
    CrEnded /\ ~cr_matplotlib /\ cr_results_dir /\ CrValidPair =>
        /\ cr_pc = "done"
        /\ cr_report /= <<>>
        /\ cr_files = {"detailed_comparison_report.md"}

\* what main does do without matplotlib: with a valid pair it ends in
\* NameError (np is not bound) before any file is written
CrNameErrorWithoutMatplotlib ==
    /\ cr_pc = "raise" <=> cr_exc = "NameError"
    /\ cr_pc = "raise" => ~cr_matplotlib /\ cr_files = {}
    /\ CrEnded /\ ~cr_matplotlib /\ cr_results_dir /\ CrValidPair =>
          cr_pc = "raise"
    /\ cr_pc = "done" =>
          cr_matplotlib /\ "detailed_comparison_report.md" \in cr_files

(***************************************************************************)
(* python/4_nvtx_annotations.py: the nvtx import guard, DummyNVTX, and the *)
(* nvtx uses that importing the module and running main() go through.      *)
(*                                                                         *)
(* The run is the sequence of its nvtx uses, in program order:             *)
(*   "decorate"  nvtx.annotate(...) applied to a function (@ form)         *)
(*   "call"/"return"  entering and leaving a function decorated that way   *)
(*   "push"/"pop"     nvtx.push_range(...) / nvtx.pop_range()              *)
(*   "enter"/"exit"   `with nvtx.annotate(...):` entered and left          *)
(*   "done"      main has finished one of its six examples                 *)
(***************************************************************************)
NvOp(o, n) == [op |-> o, name |-> n]

RECURSIVE NvRepeat(_, _)
NvRepeat(ops, n) == IF n = 0 THEN <<>> ELSE ops \o NvRepeat(ops, n - 1)

NvRange(n) == <<NvOp("push", n), NvOp("pop", n)>>
NvWith(n, body) == <<NvOp("enter", n)>> \o body \o <<NvOp("exit", n)>>
NvDecorated(n, body) == <<NvOp("call", n)>> \o body \o <<NvOp("return", n)>>

\* the decorators applied while the module is imported
NvModule ==
    <<NvOp("decorate", "DataPreprocessing"), NvOp("decorate", "Pipeline.load"),
      NvOp("decorate", "Pipeline.transform"),
      NvOp("decorate", "Pipeline.process")>>

preprocess_data ==
    NvDecorated("DataPreprocessing",
        NvRange("LoadData") \o NvRange("Normalize")
            \o NvRange("ExtractFeatures"))

\* profile_function's wrapper pushes and pops around the function
train_model(epochs) ==
    <<NvOp("push", "ModelTraining")>>
    \o NvRepeat(<<NvOp("push", "Epoch")>> \o NvRange("Forward")
                   \o NvRange("Backward") \o <<NvOp("pop", "Epoch")>>, epochs)
    \o <<NvOp("pop", "ModelTraining")>>

load_batch == NvDecorated("Pipeline.load", <<>>)

transform_batch ==
    NvDecorated("Pipeline.transform",
        NvWith("FFT", <<>>) \o NvWith("Filter", <<>>)
            \o NvWith("Inverse_FFT", <<>>))

process_batches(num_batches) ==
    NvDecorated("Pipeline.process",
        NvRepeat(<<NvOp("push", "Batch")>> \o load_batch \o transform_batch
                    \o <<NvOp("pop", "Batch")>>, num_batches))

NvContextExample ==
    NvWith("ContextExample",
        NvWith("Phase1", <<>>) \o NvWith("Phase2", <<>>)
            \o NvWith("Phase3", <<>>))

complex_workflow ==
    <<NvOp("push", "DataPreparation")>>
    \o NvRepeat(NvRange("LoadDataset"), NvDatasets)
    \o <<NvOp("pop", "DataPreparation")>>
    \o <<NvOp("push", "ParallelProcessing")>>
    \o NvRepeat(NvRange("ProcessDataset"), NvDatasets)
    \o <<NvOp("pop", "ParallelProcessing")>>
    \o NvRange("Aggregation")

\* bubble_sort runs on 1000 elements, so only i = 0 opens a progress range
benchmark_with_annotations ==
    <<NvOp("decorate", "BubbleSort")>>
    \o <<NvOp("decorate", "QuickSort")>>
    \o <<NvOp("decorate", "NumpySort")>>
    \o NvDecorated("BubbleSort", NvRange("BubbleSort_Progress"))
    \o NvDecorated("QuickSort", <<>>)
    \o NvDecorated("NumpySort", <<>>)

NvMain ==
    preprocess_data \o <<NvOp("done", "1")>>
    \o train_model(NvEpochs) \o <<NvOp("done", "2")>>
    \o process_batches(NvBatches) \o <<NvOp("done", "3")>>
    \o NvContextExample \o <<NvOp("done", "4")>>
    \o complex_workflow \o <<NvOp("done", "5")>>
    \o benchmark_with_annotations \o <<NvOp("done", "6")>>

NvProgram == NvModule \o NvMain

\* what the object returned by nvtx.annotate("...") supports: the nvtx
\* package's annotate is a decorator and a context manager; DummyNVTX's
\* annotate returns the plain function `decorator`
Annotate(available) ==
    IF available THEN {"__call__", "__enter__", "__exit__"}
    ELSE {"__call__"}

NvInit ==
    /\ nv_available \in BOOLEAN
    /\ nv_state = "run"
    /\ nv_pc = 1
    /\ nv_depth = 0
    /\ nv_done = 0
    /\ nv_exc = ""
    /\ Idle("nv")

NvAt(o) ==
    /\ nv_state = "run"
    /\ nv_pc <= Len(NvProgram)
    /\ NvProgram[nv_pc].op = o

\* the next use, or the end of main
NvAdvance ==
    /\ nv_pc' = nv_pc + 1
    /\ nv_state' = IF nv_pc = Len(NvProgram) THEN "done" ELSE "run"

NvRaise(e) ==
    /\ nv_exc' = e
    /\ nv_state' = "raise"
    /\ UNCHANGED nv_pc

\* @nvtx.annotate("..."): the returned object is called with the function
NvDecorate ==
    /\ NvAt("decorate")
    /\ IF "__call__" \in Annotate(nv_available)
       THEN NvAdvance /\ UNCHANGED nv_exc
       ELSE NvRaise("TypeError")
    /\ UNCHANGED <<nv_available, nv_depth, nv_done, notNv>>

\* a call of a decorated function: nvtx opens a range around it, and the
\* function DummyNVTX's decorator returned is the function itself
NvCall ==
    /\ NvAt("call")
    /\ NvAdvance
    /\ nv_depth' = IF nv_available THEN nv_depth + 1 ELSE nv_depth
    /\ UNCHANGED <<nv_available, nv_done, nv_exc, notNv>>

NvReturn ==
    /\ NvAt("return")
    /\ NvAdvance
    /\ nv_depth' = IF nv_available THEN nv_depth - 1 ELSE nv_depth
    /\ UNCHANGED <<nv_available, nv_done, nv_exc, notNv>>

\* nvtx.push_range(...): DummyNVTX.push_range is `pass`
NvPush ==
    /\ NvAt("push")
    /\ NvAdvance
    /\ nv_depth' = IF nv_available THEN nv_depth + 1 ELSE nv_depth
    /\ UNCHANGED <<nv_available, nv_done, nv_exc, notNv>>

\* nvtx.pop_range(): DummyNVTX.pop_range is `pass`
NvPop ==
    /\ NvAt("pop")
    /\ NvAdvance
    /\ nv_depth' = IF nv_available THEN nv_depth - 1 ELSE nv_depth
    /\ UNCHANGED <<nv_available, nv_done, nv_exc, notNv>>

\* `with nvtx.annotate("..."):` the with statement looks up the context
\* manager protocol on the returned object before the body runs
NvEnter ==
    /\ NvAt("enter")
    /\ IF {"__enter__", "__exit__"} \subseteq Annotate(nv_available)
       THEN /\ NvAdvance
            /\ nv_depth' = nv_depth + 1
            /\ UNCHANGED nv_exc
       ELSE /\ NvRaise("TypeError")
            /\ UNCHANGED nv_depth
    /\ UNCHANGED <<nv_available, nv_done, notNv>>

NvExit ==
    /\ NvAt("exit")
    /\ NvAdvance
    /\ nv_depth' = nv_depth - 1
    /\ UNCHANGED <<nv_available, nv_done, nv_exc, notNv>>

\* main goes from one example to the next
NvExampleDone ==
    /\ NvAt("done")
    /\ NvAdvance
    /\ nv_done' = nv_done + 1
    /\ UNCHANGED <<nv_available, nv_depth, nv_exc, notNv>>

NvNext ==
    \/ NvDecorate \/ NvCall \/ NvReturn \/ NvPush \/ NvPop
    \/ NvEnter \/ NvExit \/ NvExampleDone

SpecNv == NvInit /\ [][NvNext]_vars

\* C8: without the nvtx package, every nvtx use is a no-op: no use raises,
\* and main runs all six examples to completion.
C8_DummyRunsAllExamples ==
    ~nv_available =>
        /\ nv_exc = ""
        /\ nv_depth = 0
        /\ nv_state /= "run" => nv_state = "done" /\ nv_done = 6

\* what the run does do: with the package every range opened is closed and
\* the six examples complete; without it the decorator and push/pop forms
\* are no-ops and the first `with nvtx.annotate("FFT")` of example 3 raises
\* TypeError
NvDummyStopsAtFirstWith ==
    /\ nv_depth >= 0
    /\ nv_available => nv_exc = "" /\ nv_state /= "raise"
    /\ nv_available /\ nv_state = "done" => nv_done = 6 /\ nv_depth = 0
    /\ ~nv_available => nv_depth = 0 /\ nv_state /= "done"
    /\ nv_state = "raise" =>
          /\ nv_exc = "TypeError"
          /\ nv_done = 2
          /\ NvProgram[nv_pc] = NvOp("enter", "FFT")

(***************************************************************************)
(* python/5_io_bound_example.py: the module's imports, IOProfiler and      *)
(* main.                                                                   *)
(*                                                                         *)
(* A measured function reads and writes files of the profiler's temporary  *)
(* directory.  The environment may make one of the measured functions fail *)
(* with OSError (io_fault is its position among the measure calls, 0 for   *)
(* none).                                                                  *)
(***************************************************************************)
IoStep(s, n, r, w) == [section |-> s, name |-> n, reads |-> r, writes |-> w]

file_io_patterns ==
    <<IoStep("1", "Sequential writes (10k lines)", {}, {"sequential.txt"}),
      IoStep("1", "Buffered writes (100 line chunks)", {}, {"buffered.txt"}),
      IoStep("1", "Binary I/O (1000x1000 float32)", {}, {"binary.dat"}),
      IoStep("1", "Create 1000 small files", {}, {"small_files"}),
      IoStep("1", "Memory-mapped I/O (100MB)", {}, {"mmap.dat"})>>

structured_data_io ==
    <<IoStep("2", "JSON I/O (10k records)", {}, {"data.json"}),
      IoStep("2", "CSV I/O (10k records)", {}, {"data.csv"}),
      IoStep("2", "SQLite I/O (10k records)", {}, {"data.db"})>>

concurrent_io_patterns ==
    <<IoStep("3", "Threaded I/O (4 threads, 1000 files)", {}, {"threaded"}),
      IoStep("3", "Producer-consumer I/O", {}, {"pc_data"})>>

\* the try block of main around asyncio.run(async_io_patterns(profiler))
IoAsyncStep == <<IoStep("4", "async", {}, {})>>

\* the measure of unoptimized_copy, which would create source.dat, is
\* commented out
io_optimization_comparison ==
    <<IoStep("5", "Optimized copy (1MB buffer)", {"source.dat"},
             {"dest_opt.dat"}),
      IoStep("5", "System copy (shutil)", {"source.dat"},
             {"dest_system.dat"})>>

simulate_network_io ==
    <<IoStep("6", "Request-response pattern (1000 requests)", {}, {}),
      IoStep("6", "Streaming pattern (10MB)", {}, {"stream.dat"})>>

IoProgram ==
    file_io_patterns \o structured_data_io \o concurrent_io_patterns
    \o IoAsyncStep \o io_optimization_comparison \o simulate_network_io

IoMeasures == {k \in 1..Len(IoProgram) : IoProgram[k].name /= "async"}

\* the modules the script imports at its top: aiofiles is one of them
IoTopLevelImports == {"aiofiles", "numpy"}

IoInstalled(aiofiles) == IF aiofiles THEN {"aiofiles", "numpy"} ELSE {"numpy"}

IoInit ==
    /\ io_aiofiles \in BOOLEAN
    /\ io_running = ""
    /\ io_a = 0
    /\ io_fault \in {0} \cup IoMeasures
    /\ io_pc = "import"
    /\ io_k = 0
    /\ io_tmp = FALSE
    /\ io_files = {}
    /\ io_results = {}
    /\ io_sections = {}
    /\ io_printed = {}
    /\ io_exc = ""
    /\ Idle("io")

\* the import statements at the top of the script
IoImport ==
    /\ io_pc = "import"
    /\ IF IoTopLevelImports \subseteq IoInstalled(io_aiofiles)
       THEN io_pc' = "main" /\ UNCHANGED io_exc
       ELSE io_pc' = "raise" /\ io_exc' = "ModuleNotFoundError"
    /\ UNCHANGED <<io_aiofiles, io_running, io_a, io_fault, io_k, io_tmp, io_files, io_results,
                   io_sections, io_printed, notIo>>

\* main: with IOProfiler() as profiler  (__init__ and __enter__)
IoConstruct ==
    /\ io_pc = "main"
    /\ io_tmp' = TRUE
    /\ io_files' = {}
    /\ io_results' = {}
    /\ io_k' = 1
    /\ io_pc' = "block"
    /\ UNCHANGED <<io_aiofiles, io_running, io_a, io_fault, io_sections, io_printed, io_exc,
                   notIo>>

\* the next statement of the with block, or its end
IoAfter(k) == IF k = Len(IoProgram) THEN "leave" ELSE "block"

\* profiler.measure(name, func): func runs, then results[name] is set
IoMeasure ==
    /\ io_pc = "block"
    /\ io_k \in IoMeasures
    /\ LET step == IoProgram[io_k]
           raised == IF io_fault = io_k THEN "OSError"
                     ELSE IF ~(step.reads \subseteq io_files)
                     THEN "FileNotFoundError"
                     ELSE ""
       IN
       /\ io_sections' = io_sections \cup {step.section}
       /\ IF raised = ""
          THEN /\ io_files' = io_files \cup step.writes
               /\ io_results' = io_results \cup {step.name}
               /\ io_k' = io_k + 1
               /\ io_pc' = IoAfter(io_k)
               /\ UNCHANGED io_exc
          ELSE /\ io_exc' = raised
               /\ io_pc' = "leave"
               /\ io_files' \in IF raised = "OSError"
                                THEN {io_files, io_files \cup step.writes}
                                ELSE {io_files}
               /\ UNCHANGED <<io_results, io_k>>
    /\ UNCHANGED <<io_aiofiles, io_running, io_a, io_fault, io_tmp, io_printed,
                   notIo>>

\* main: try: import aiofiles; asyncio.run(async_io_patterns(profiler))
\*       except ImportError: print the section as skipped
\* asyncio.run makes an event loop, runs it in this thread and starts the
\* coroutine in it
IoAsync ==
    /\ io_pc = "block"
    /\ io_k \notin IoMeasures
    /\ IF "aiofiles" \notin IoInstalled(io_aiofiles)
       THEN /\ io_printed' = io_printed \cup {"Skipped"}
            /\ io_k' = io_k + 1
            /\ io_pc' = IoAfter(io_k)
            /\ UNCHANGED <<io_sections, io_running, io_a>>
       ELSE /\ io_sections' = io_sections \cup {"4"}
            /\ io_running' = "asyncio.run"
            /\ io_a' = 1
            /\ io_pc' = "async"
            /\ UNCHANGED <<io_printed, io_k>>
    /\ UNCHANGED <<io_aiofiles, io_fault, io_tmp, io_files, io_results, io_exc,
                   notIo>>

\* the two parts of async_io_patterns: the coroutine function run, the key
\* set in profiler.results, the files written
IoAsyncParts ==
    <<IoStep("4", "Async I/O (100 concurrent files)", {}, {"async_files"}),
      IoStep("4", "Rate-limited async I/O", {}, {"rate_limited"})>>

\* loop.run_until_complete(...) of a new loop: it raises RuntimeError when
\* an event loop is running in the thread
RunUntilComplete(running) == IF running /= "" THEN "RuntimeError" ELSE ""

\* async_io_patterns: loop = asyncio.new_event_loop();
\* try: loop.run_until_complete(...); profiler.results[...] = elapsed
\* finally: loop.close().  An exception leaves the coroutine, asyncio.run
\* closes its loop and raises it in main, whose except takes ImportError
\* only.
IoRunUntilComplete ==
    /\ io_pc = "async"
    /\ LET part == IoAsyncParts[io_a]
           raised == RunUntilComplete(io_running)
       IN
       IF raised = ""
       THEN /\ io_files' = io_files \cup part.writes
            /\ io_results' = io_results \cup {part.name}
            /\ IF io_a < Len(IoAsyncParts)
               THEN /\ io_a' = io_a + 1
                    /\ UNCHANGED <<io_running, io_k, io_pc>>
               ELSE /\ io_running' = ""
                    /\ io_k' = io_k + 1
                    /\ io_pc' = IoAfter(io_k)
                    /\ UNCHANGED io_a
            /\ UNCHANGED io_exc
       ELSE /\ io_exc' = raised
            /\ io_running' = ""
            /\ io_pc' = "leave"
            /\ UNCHANGED <<io_files, io_results, io_a, io_k>>
    /\ UNCHANGED <<io_aiofiles, io_fault, io_tmp, io_sections, io_printed,
                   notIo>>

\* the with block is left: at its end after the summary, or by the exception;
\* __exit__ removes the temporary directory and does not swallow
IoLeave ==
    /\ io_pc = "leave"
    /\ io_tmp' = FALSE
    /\ io_files' = {}
    /\ IF io_exc = ""
       THEN /\ io_printed' = io_printed \cup {"Summary", "complete"}
            /\ io_pc' = "done"
       ELSE /\ io_pc' = "raise"
            /\ UNCHANGED io_printed
    /\ UNCHANGED <<io_aiofiles, io_running, io_a, io_fault, io_k, io_results, io_sections,
                   io_exc, notIo>>

IoNext ==
    \/ IoImport
    \/ IoConstruct
    \/ IoMeasure
    \/ IoAsync
    \/ IoRunUntilComplete
    \/ IoLeave

SpecIo == IoInit /\ [][IoNext]_vars

IoEnded == io_pc \in {"done", "raise"}

\* C10: without aiofiles, and no measured function failing, the script says
\* the async section is skipped, runs sections 1, 2, 3, 5 and 6 and the
\* summary, and is never aborted by the missing package.
C10_RunsWithoutAiofiles ==
    /\ ~io_aiofiles => io_exc /= "ModuleNotFoundError"
    /\ ~io_aiofiles /\ io_fault = 0 /\ IoEnded =>
          /\ "Skipped" \in io_printed
          /\ io_sections = {"1", "2", "3", "5", "6"}
          /\ "Summary" \in io_printed

\* what the script does do without aiofiles: the import at its top raises
\* ModuleNotFoundError before main is entered
IoAbortsAtImportWithoutAiofiles ==
    /\ ~io_aiofiles /\ io_pc /= "import" =>
          /\ io_pc = "raise"
          /\ io_exc = "ModuleNotFoundError"
          /\ io_sections = {}
          /\ io_printed = {}
    /\ io_exc = "ModuleNotFoundError" => ~io_aiofiles
    /\ "Skipped" \notin io_printed

\* C21: run the way main runs it, async_io_patterns calls
\* run_until_complete only when no other event loop is running in the
\* thread, so both parts run to completion and both names are recorded in
\* profiler.results.
C21_AsyncPatternsRecorded ==
    /\ io_pc = "async" => io_running = ""
    /\ "4" \in io_sections /\ IoEnded =>
          \A a \in 1..Len(IoAsyncParts) : IoAsyncParts[a].name \in io_results

\* what async_io_patterns does do under asyncio.run: its first
\* run_until_complete raises RuntimeError, nothing of the section is
\* recorded or written, and the script ends with that exception
IoAsyncRaisesRuntimeError ==
    /\ io_pc = "async" => io_running = "asyncio.run" /\ io_a = 1
    /\ "4" \in io_sections /\ io_pc /= "async" =>
          /\ io_exc = "RuntimeError"
          /\ io_pc \in {"leave", "raise"}
    /\ \A a \in 1..Len(IoAsyncParts) :
          /\ IoAsyncParts[a].name \notin io_results
          /\ IoAsyncParts[a].writes \cap io_files = {}

(***************************************************************************)
(* python/5_io_bound_example.py: io_optimization_comparison, called with a *)
(* profiler whose temporary directory holds any of the files that the      *)
(* functions measured before it write.  unoptimized_copy, the only         *)
(* function of the script that creates source.dat, is defined and never    *)
(* called: its measure is commented out.                                   *)
(***************************************************************************)
IoOptFirst == Len(IoProgram) - Len(simulate_network_io)
              - Len(io_optimization_comparison) + 1

IoOptSteps == IoOptFirst..(IoOptFirst + Len(io_optimization_comparison) - 1)

IoFilesBefore ==
    UNION {IoProgram[k].writes : k \in 1..(IoOptFirst - 1)}
    \cup UNION {IoAsyncParts[a].writes : a \in 1..Len(IoAsyncParts)}

IoOptInit ==
    /\ io_aiofiles = TRUE
    /\ io_running = ""
    /\ io_a = 0
    /\ io_fault \in {0} \cup IoOptSteps
    /\ io_pc = "block"
    /\ io_k = IoOptFirst
    /\ io_tmp = TRUE
    /\ io_files \in SUBSET IoFilesBefore
    /\ io_results = {}
    /\ io_sections = {}
    /\ io_printed = {}
    /\ io_exc = ""
    /\ Idle("io")

\* a measure that is not of io_optimization_comparison is not taken
IoOptMeasure == io_k \in IoOptSteps /\ IoMeasure

\* the function returns after its last measure, or an exception leaves it
IoOptReturn ==
    /\ \/ io_pc = "leave"
       \/ io_pc = "block" /\ io_k \notin IoOptSteps
    /\ io_pc' = IF io_exc = "" THEN "done" ELSE "raise"
    /\ UNCHANGED <<io_aiofiles, io_running, io_a, io_fault, io_k, io_tmp,
                   io_files, io_results, io_sections, io_printed, io_exc,
                   notIo>>

IoOptNext == IoOptMeasure \/ IoOptReturn

SpecIoOpt == IoOptInit /\ [][IoOptNext]_vars

\* C22: in io_optimization_comparison every file that is read exists when
\* it is read (source.dat is there before optimized_copy and system_copy
\* open it), so both copies complete and are recorded in profiler.results.
C22_SourceExistsWhenRead ==
    /\ io_pc = "block" /\ io_k \in IoOptSteps =>
          IoProgram[io_k].reads \subseteq io_files
    /\ io_fault = 0 /\ IoEnded =>
          \A k \in IoOptSteps : IoProgram[k].name \in io_results

\* what io_optimization_comparison does do: optimized_copy, its first
\* measured function, fails (FileNotFoundError for source.dat unless the
\* environment fails it first), nothing is recorded and system_copy is
\* never called
IoOptRaisesFileNotFound ==
    /\ io_k = IoOptFirst
    /\ io_results = {}
    /\ "source.dat" \notin io_files
    /\ IoEnded =>
          /\ io_pc = "raise"
          /\ io_exc = IF io_fault = IoOptFirst THEN "OSError"
                      ELSE "FileNotFoundError"

(***************************************************************************)
(* python/5_io_bound_example.py: class IOProfiler, used the way main uses  *)
(* it: `with IOProfiler() as profiler:` around calls of profiler.measure.  *)
(*                                                                         *)
(* The caller chooses the name and the function of every measure call; the *)
(* function writes some files under temp_dir and returns a value or        *)
(* raises, and the clock gives the elapsed time.                           *)
(***************************************************************************)
ProfNames == {"a", "b"}
ProfValues == {"x", "y"}
ProfFiles == {"f1", "f2"}
Elapsed == 1..MaxElapsed

\* self.results[name] = elapsed, on a dict kept as a set of <<key, value>>
MeasureStoreKeepsOld(results, name, elapsed) == results \cup {<<name, elapsed>>}
MeasureStore(results, name, elapsed) ==
    {p \in results : p[1] /= name} \cup {<<name, elapsed>>}

\* shutil.rmtree(self.temp_dir): what is left under the directory
RmtreeKeepsFiles(files) == files
Rmtree(files) == {}

ProfInit ==
    /\ pf_pc = "new"
    /\ pf_n = 0
    /\ pf_tmp = FALSE
    /\ pf_files = {}
    /\ pf_results = {}
    /\ pf_name = ""
    /\ pf_func_calls = 0
    /\ pf_func_ret = ""
    /\ pf_ret = ""
    /\ pf_removed = {}
    /\ pf_exc = ""
    /\ Idle("pf")

\* IOProfiler(): mkdtemp and results = {}; __enter__ returns self
ProfConstruct ==
    /\ pf_pc = "new"
    /\ pf_tmp' = TRUE
    /\ pf_files' = {}
    /\ pf_results' = {}
    /\ pf_pc' = "block"
    /\ UNCHANGED <<pf_n, pf_name, pf_func_calls, pf_func_ret, pf_ret,
                   pf_removed, pf_exc, notProf>>

\* profiler.measure(name, func): result = func(); results[name] = elapsed;
\* return result.  An exception of func leaves measure and the with body.
ProfMeasure ==
    /\ pf_pc = "block"
    /\ pf_n < MaxMeasures
    /\ \E name \in ProfNames, outcome \in ProfValues \cup {"raise"},
          elapsed \in Elapsed, writes \in SUBSET ProfFiles :
          /\ pf_n' = pf_n + 1
          /\ pf_name' = name
          /\ pf_func_calls' = pf_func_calls + 1
          /\ pf_files' = pf_files \cup writes
          /\ IF outcome = "raise"
             THEN /\ pf_func_ret' = ""
                  /\ pf_ret' = ""
                  /\ pf_exc' = "Exception"
                  /\ pf_pc' = "leave"
                  /\ UNCHANGED pf_results
             ELSE /\ pf_func_ret' = outcome
                  /\ pf_results' = MeasureStore(pf_results, name, elapsed)
                  /\ pf_ret' = outcome
                  /\ UNCHANGED <<pf_exc, pf_pc>>
    /\ UNCHANGED <<pf_tmp, pf_removed, notProf>>

\* the with block is left, at its end or by an exception: __exit__ calls
\* shutil.rmtree(self.temp_dir) and returns None, so an exception goes on
ProfLeave ==
    /\ pf_pc \in {"block", "leave"}
    /\ pf_removed' = pf_files \ Rmtree(pf_files)
    /\ pf_files' = Rmtree(pf_files)
    /\ pf_tmp' = FALSE
    /\ pf_pc' = IF pf_exc = "" THEN "done" ELSE "raise"
    /\ UNCHANGED <<pf_n, pf_results, pf_name, pf_func_calls, pf_func_ret,
                   pf_ret, pf_exc, notProf>>

ProfNext == ProfConstruct \/ ProfMeasure \/ ProfLeave

SpecProf == ProfInit /\ [][ProfNext]_vars

\* C11: the temporary directory exists from construction until the with
\* block is left, and once the block has been left, at its end or by an
\* exception of a measured function, the directory and every file written
\* under it are gone.
C11_TempDirScoped ==
    /\ pf_pc = "new" => ~pf_tmp
    /\ pf_pc \in {"block", "leave"} => pf_tmp
    /\ pf_pc \in {"done", "raise"} => ~pf_tmp /\ pf_files = {}

\* C11 happens: the block was left by an exception after files were written,
\* and rmtree removed them
C11_Witness ==
    /\ pf_pc = "raise"
    /\ pf_removed = ProfFiles
    /\ ~pf_tmp

\* C12: a measure call calls func once; when func returns, measure returns
\* that value and results is the old mapping with results[name] set (an
\* earlier entry for name replaced, every other entry kept); when func
\* raises, the exception goes on and results is unchanged.
C12_MeasureFrame ==
    [][pf_n' = pf_n + 1 =>
          /\ pf_func_calls' = pf_func_calls + 1
          /\ IF pf_exc' = ""
             THEN /\ pf_ret' = pf_func_ret'
                  /\ pf_ret' \in ProfValues
                  /\ \E e \in Elapsed : <<pf_name', e>> \in pf_results'
                  /\ \A p \in pf_results', q \in pf_results' :
                        p[1] = q[1] => p = q
                  /\ \A p \in pf_results :
                        p[1] /= pf_name' => p \in pf_results'
                  /\ \A p \in pf_results' :
                        p[1] /= pf_name' => p \in pf_results
             ELSE /\ pf_results' = pf_results
                  /\ pf_pc' = "leave"]_vars

\* C12 happens: two measure calls with the same name have returned, and
\* results holds the one entry of the second next to no other
C12_Witness ==
    /\ pf_pc = "block"
    /\ pf_n = 2
    /\ pf_exc = ""
    /\ Cardinality(pf_results) = 1

(***************************************************************************)
(* test_environment.py: the six checks and main.                           *)
(*                                                                         *)
(* env_in is what the checks find: whether the interpreter is 3.7 or       *)
(* later, whether a virtual environment is active, which of the required   *)
(* packages cannot be imported, which of the project directories are       *)
(* missing, how `nsys --version` ends and what cpp/bin holds.  The lists   *)
(* of packages and of directories are cut down to two entries each.        *)
(***************************************************************************)
EnvPackages == {"numpy", "nvtx"}
EnvDirs == {"python", "results"}

EnvInputs ==
    [py37 : BOOLEAN, venv : BOOLEAN, missing : SUBSET EnvPackages,
     nodirs : SUBSET EnvDirs,
     nsys : {"ok", "CalledProcessError", "FileNotFoundError"},
     bin : {"nodir", "empty", "built"}]

test_python_version(in) == in.py37
test_virtual_env(in) == in.venv
test_imports(in) == \A p \in EnvPackages : p \notin in.missing
test_directories(in) == \A d \in EnvDirs : d \notin in.nodirs
test_nsys(in) == in.nsys = "ok"
test_cpp_build(in) == in.bin = "built"

\* the list main builds, in the order of its entries
EnvCheckNames ==
    <<"test_python_version", "test_virtual_env", "test_imports",
      "test_directories", "test_nsys", "test_cpp_build">>

EnvCheck(k, in) ==
    CASE k = 1 -> test_python_version(in)
      [] k = 2 -> test_virtual_env(in)
      [] k = 3 -> test_imports(in)
      [] k = 4 -> test_directories(in)
      [] k = 5 -> test_nsys(in)
      [] k = 6 -> test_cpp_build(in)

\* passed = sum(tests); total = len(tests); return passed == total
EnvAllPassedIfAny(tests) == Cardinality({k \in DOMAIN tests : tests[k]}) >= 1
EnvAllPassed(tests) ==
    Cardinality({k \in DOMAIN tests : tests[k]}) = Len(tests)

EnvInit ==
    /\ env_in \in EnvInputs
    /\ env_pc = "tests"
    /\ env_tests = <<>>
    /\ env_ran = <<>>
    /\ env_ret = FALSE
    /\ env_exit = -1
    /\ Idle("env")

\* main: the next entry of the list `tests` is evaluated
EnvRunCheck ==
    /\ env_pc = "tests"
    /\ LET k == Len(env_tests) + 1
       IN /\ env_tests' = Append(env_tests, EnvCheck(k, env_in))
          /\ env_ran' = Append(env_ran, EnvCheckNames[k])
          /\ env_pc' = IF k = Len(EnvCheckNames) THEN "summary" ELSE "tests"
    /\ UNCHANGED <<env_in, env_ret, env_exit, notEnv>>

\* main: the summary and `return passed == total`
EnvSummary ==
    /\ env_pc = "summary"
    /\ env_ret' = EnvAllPassed(env_tests)
    /\ env_pc' = "returned"
    /\ UNCHANGED <<env_in, env_tests, env_ran, env_exit, notEnv>>

\* sys.exit(0 if main() else 1)
EnvExit ==
    /\ env_pc = "returned"
    /\ env_exit' = IF env_ret THEN 0 ELSE 1
    /\ env_pc' = "exit"
    /\ UNCHANGED <<env_in, env_tests, env_ran, env_ret, notEnv>>

EnvNext == EnvRunCheck \/ EnvSummary \/ EnvExit

SpecEnv == EnvInit /\ [][EnvNext]_vars

\* C13: the six checks all run, in the order python version, virtual env,
\* imports, directories, nsys, C++ build, whatever the earlier ones
\* returned; main returns True and the exit status is 0 exactly when each
\* of the six returned True, and the exit status is 1 otherwise.
C13_AllChecksRunExitStatus ==
    /\ \A k \in 1..Len(env_ran) : env_ran[k] = EnvCheckNames[k]
    /\ Len(env_tests) = Len(env_ran)
    /\ env_pc /= "tests" => env_ran = EnvCheckNames
    /\ env_pc \in {"returned", "exit"} =>
          (env_ret <=> \A k \in 1..6 : env_tests[k])
    /\ env_pc = "exit" =>
          /\ env_exit \in {0, 1}
          /\ env_exit = 0 <=> env_ret
          /\ env_exit = 0 <=>
                /\ env_in.py37 /\ env_in.venv /\ env_in.missing = {}
                /\ env_in.nodirs = {} /\ env_in.nsys = "ok"
                /\ env_in.bin = "built"

\* C13 happens: the first check failed, the later ones ran and all passed,
\* and the exit status is 1
C13_Witness ==
    /\ env_pc = "exit"
    /\ env_exit = 1
    /\ ~env_tests[1]
    /\ \A k \in 2..6 : env_tests[k]

(***************************************************************************)
(* run_example.py: main_menu with list_examples, run_python_example and    *)
(* run_cpp_example.                                                        *)
(*                                                                         *)
(* What the user types is a text of at most MaxChoiceLen characters; the   *)
(* characters are digits, the minus sign, the option letters, a capital    *)
(* letter, a blank and one other character.  An entry of the menu is       *)
(* <<"python", j>> or <<"cpp", j>>: the j-th script or binary in sorted    *)
(* order.                                                                  *)
(***************************************************************************)
MenuDigits == {"0", "1", "2", "3"}
MenuChars == MenuDigits \cup {"-", "q", "b", "a", "p", "Q", " ", "x"}
MenuTexts == UNION {[1..n -> MenuChars] : n \in 0..MaxChoiceLen}

\* str.strip(): leading and trailing blanks removed
RECURSIVE LStrip(_)
LStrip(t) == IF t /= <<>> /\ Head(t) = " " THEN LStrip(Tail(t)) ELSE t
RECURSIVE RStrip(_)
RStrip(t) ==
    IF t /= <<>> /\ t[Len(t)] = " " THEN RStrip(SubSeq(t, 1, Len(t) - 1))
    ELSE t
Strip(t) == RStrip(LStrip(t))

\* str.lower()
Lower(t) == [k \in 1..Len(t) |-> IF t[k] = "Q" THEN "q" ELSE t[k]]

DigitOf(c) == CASE c = "0" -> 0 [] c = "1" -> 1 [] c = "2" -> 2 [] c = "3" -> 3

\* int(text) raises ValueError unless the text, blanks apart, is an
\* optional sign and at least one digit
IntDigits(t) == IF t /= <<>> /\ Head(t) = "-" THEN Tail(t) ELSE t
IntAccepts(t) ==
    /\ IntDigits(Strip(t)) /= <<>>
    /\ \A k \in 1..Len(IntDigits(Strip(t))) :
          IntDigits(Strip(t))[k] \in MenuDigits
RECURSIVE DigitsValue(_)
DigitsValue(d) ==
    IF d = <<>> THEN 0
    ELSE 10 * DigitsValue(SubSeq(d, 1, Len(d) - 1)) + DigitOf(d[Len(d)])
IntValue(t) ==
    IF Head(Strip(t)) = "-" THEN 0 - DigitsValue(IntDigits(Strip(t)))
    ELSE DigitsValue(IntDigits(Strip(t)))

\* all_examples = examples['python'] + examples['cpp']
AllExamples(P, C) ==
    [i \in 1..(P + C) |-> IF i <= P THEN <<"python", i>> ELSE <<"cpp", i - P>>]

\* idx = int(choice) - 1, and all_examples[idx] counted from 1
MenuIndexOffByOne(k) == IF k > 1 THEN k - 1 ELSE k
MenuIndex(k) == k

\* the subprocess.run call of run_python_example / run_cpp_example
Launch(runner, entry, profile) ==
    [runner |-> runner, entry |-> entry, profile |-> profile]

\* the try block that both numeric branches of main_menu share
MenuDispatch(text, profile) ==
    IF ~IntAccepts(text)
    THEN [launched |-> <<>>, printed |-> "Invalid input!"]
    ELSE LET k == IntValue(text)
             idx == k - 1
             all == AllExamples(mn_P, mn_C)
         IN IF 0 <= idx /\ idx < Len(all)
            THEN [launched |->
                     <<Launch(IF idx < mn_P THEN "run_python_example"
                              ELSE "run_cpp_example",
                              all[MenuIndex(k)], profile)>>,
                  printed |-> ""]
            ELSE [launched |-> <<>>, printed |-> "Invalid example number!"]

MenuInit ==
    /\ mn_nsys \in BOOLEAN
    /\ mn_pc = "start"
    /\ mn_P = 0
    /\ mn_C = 0
    /\ mn_choice = <<>>
    /\ mn_mode = ""
    /\ mn_launched = <<>>
    /\ mn_printed = ""
    /\ mn_exc = ""
    /\ Idle("mn")

\* check_venv(), check_nsys(), Path('results').mkdir(exist_ok=True)
MenuStart ==
    /\ mn_pc = "start"
    /\ \E proceed \in BOOLEAN :
          mn_pc' = IF proceed THEN "list" ELSE "exit"
    /\ UNCHANGED <<mn_nsys, mn_P, mn_C, mn_choice, mn_mode, mn_launched,
                   mn_printed, mn_exc, notMenu>>

\* the head of the loop: examples = list_examples() and the menu is shown
MenuList ==
    /\ mn_pc = "list"
    /\ mn_P' \in 0..MaxPy
    /\ mn_C' \in 0..MaxCpp
    /\ mn_choice' = <<>>
    /\ mn_mode' = ""
    /\ mn_launched' = <<>>
    /\ mn_printed' = ""
    /\ mn_pc' = "choice"
    /\ UNCHANGED <<mn_nsys, mn_exc, notMenu>>

\* a subprocess.run of `nsys profile ...` raises FileNotFoundError when
\* nsys is not installed
MenuAfter(launched) ==
    IF \E k \in 1..Len(launched) : launched[k].profile /\ ~mn_nsys
    THEN [pc |-> "raise", exc |-> "FileNotFoundError"]
    ELSE [pc |-> "list", exc |-> ""]

\* choice = input(...).strip().lower() and the branch taken on it
MenuChoice ==
    /\ mn_pc = "choice"
    /\ \E text \in MenuTexts :
          LET choice == Lower(Strip(text)) IN
          /\ mn_choice' = text
          /\ IF choice = <<"q">>
             THEN /\ mn_pc' = "exit"
                  /\ mn_mode' = "q"
                  /\ UNCHANGED <<mn_launched, mn_printed>>
             ELSE IF choice = <<"b">>
             THEN /\ mn_pc' = "list"
                  /\ mn_mode' = "b"
                  /\ UNCHANGED <<mn_launched, mn_printed>>
             ELSE IF choice = <<"a">>
             THEN /\ mn_pc' = "list"
                  /\ mn_mode' = "a"
                  /\ mn_launched' =
                        [i \in 1..(mn_P + mn_C) |->
                            Launch(IF i <= mn_P THEN "run_python_example"
                                   ELSE "run_cpp_example",
                                   AllExamples(mn_P, mn_C)[i], FALSE)]
                  /\ UNCHANGED mn_printed
             ELSE IF choice = <<"p">>
             THEN /\ mn_pc' = "profile"
                  /\ mn_mode' = "p"
                  /\ UNCHANGED <<mn_launched, mn_printed>>
             ELSE /\ mn_pc' = "list"
                  /\ mn_mode' = "plain"
                  /\ mn_launched' = MenuDispatch(choice, FALSE).launched
                  /\ mn_printed' = MenuDispatch(choice, FALSE).printed
    /\ UNCHANGED <<mn_nsys, mn_P, mn_C, mn_exc, notMenu>>

\* profile_choice = input(...).strip() and the try block after it
MenuProfile ==
    /\ mn_pc = "profile"
    /\ \E text \in MenuTexts :
          /\ mn_choice' = text
          /\ mn_launched' = MenuDispatch(Strip(text), TRUE).launched
          /\ mn_printed' = MenuDispatch(Strip(text), TRUE).printed
          /\ mn_pc' = MenuAfter(MenuDispatch(Strip(text), TRUE).launched).pc
          /\ mn_exc' = MenuAfter(MenuDispatch(Strip(text), TRUE).launched).exc
    /\ UNCHANGED <<mn_nsys, mn_P, mn_C, mn_mode, notMenu>>

MenuNext == MenuStart \/ MenuList \/ MenuChoice \/ MenuProfile

SpecMenu == MenuInit /\ [][MenuNext]_vars

\* the number a typed text stands for, read digit by digit
C14_IsNumber(t) ==
    LET s == SelectSeq(t, LAMBDA c : c /= " ")
    IN /\ Strip(t) = s
       /\ s /= <<>>
       /\ \A k \in 1..Len(s) : s[k] \in MenuDigits \/ (k = 1 /\ s[k] = "-")
       /\ s /= <<"-">>

C14_Number(t) ==
    LET s == SelectSeq(t, LAMBDA c : c \in MenuDigits)
        v == IF Len(s) = 1 THEN DigitOf(s[1])
             ELSE IF Len(s) = 2 THEN 10 * DigitOf(s[1]) + DigitOf(s[2])
             ELSE 100 * DigitOf(s[1]) + 10 * DigitOf(s[2]) + DigitOf(s[3])
    IN IF \E k \in 1..Len(t) : t[k] = "-" THEN 0 - v ELSE v

\* a number was typed as the choice, or after the choice p
C14_Answered ==
    /\ mn_pc \in {"list", "raise"}
    /\ mn_mode \in {"plain", "p"}

\* C14: with P Python examples and C binaries listed, a number k typed with
\* 1 <= k <= P + C makes exactly one launch, of the entry shown with number
\* k (the k-th script when k <= P, else the (k-P)-th binary), plain for a
\* bare number and under nsys profile after p; any other number makes no
\* launch and prints "Invalid example number!"; a text that is no number
\* makes no launch and prints "Invalid input!".
C14_NumericChoice ==
    C14_Answered =>
        IF C14_IsNumber(mn_choice)
        THEN LET k == C14_Number(mn_choice) IN
             IF 1 <= k /\ k <= mn_P + mn_C
             THEN /\ Len(mn_launched) = 1
                  /\ mn_launched[1].entry =
                        IF k <= mn_P THEN <<"python", k>>
                        ELSE <<"cpp", k - mn_P>>
                  /\ mn_launched[1].runner =
                        IF k <= mn_P THEN "run_python_example"
                        ELSE "run_cpp_example"
                  /\ mn_launched[1].profile = (mn_mode = "p")
                  /\ mn_printed = ""
             ELSE /\ mn_launched = <<>>
                  /\ mn_printed = "Invalid example number!"
        ELSE /\ mn_launched = <<>>
             /\ mn_printed = "Invalid input!"

\* C14 happens: with two scripts and one binary listed, 3 typed after p has
\* launched the first binary under the profiler
C14_Witness ==
    /\ C14_Answered
    /\ mn_mode = "p"
    /\ mn_P = 2
    /\ mn_C = 1
    /\ mn_choice = <<"3">>
    /\ Len(mn_launched) = 1
    /\ mn_launched[1].entry = <<"cpp", 1>>

\* C25: once the menu loop has been entered it ends only when the user
\* enters q: after any other choice, profiling without nsys installed
\* included, control returns to the prompt with the list re-read.
C25_LoopEndsOnlyOnQuit ==
    /\ mn_pc \in {"exit", "raise"} /\ mn_mode /= "" =>
          mn_mode = "q" /\ mn_exc = ""
    /\ mn_mode \notin {"", "q"} => mn_pc \in {"list", "profile"}

\* what does hold: the loop ends on q, or by the FileNotFoundError of the
\* subprocess.run of `nsys profile` when an example is profiled without
\* nsys installed
MenuEndsOnQuitOrMissingNsys ==
    /\ mn_pc = "exit" /\ mn_mode /= "" => mn_mode = "q" /\ mn_exc = ""
    /\ mn_pc = "raise" <=> mn_exc = "FileNotFoundError"
    /\ mn_pc = "raise" =>
          /\ ~mn_nsys
          /\ mn_mode = "p"
          /\ Len(mn_launched) = 1
          /\ mn_launched[1].profile
    /\ mn_nsys /\ mn_mode \notin {"", "q"} => mn_pc \in {"list", "profile"}

(***************************************************************************)
(* scripts/generate_visual_report.py: generate_html_report.                *)
(*                                                                         *)
(* A profile record is known by how its name starts: "py_", "cpp_" or      *)
(* otherwise.  The template is a plain string handed to str.format, which  *)
(* takes every {...} group of it as a replacement field named by the text  *)
(* up to the first ':'; the groups of the template are, in order, the      *)
(* bodies of its thirteen CSS rules (named here by their first property,   *)
(* blanks apart) and its six placeholders.                                 *)
(***************************************************************************)
HtKinds == {"py_", "cpp_", "other"}

HtTemplateFields ==
    <<"font-family", "max-width", "color", "color", "background-color",
      "margin", "width", "padding", "background-color", "background-color",
      "text-align", "max-width", "text-align",
      "timestamp", "total_profiles", "python_profiles", "cpp_profiles",
      "charts_section", "profiles_section">>

\* the keyword arguments of html_content.format(...)
HtSupplied ==
    {"timestamp", "total_profiles", "python_profiles", "cpp_profiles",
     "charts_section", "profiles_section"}

\* sum(1 for p in profiles_data if p['name'].startswith(prefix))
HtCount(profiles, prefix) ==
    Cardinality({k \in DOMAIN profiles : profiles[k] = prefix})

\* str.format: the first field that is no keyword argument raises KeyError
HtMissing(fields, supplied) ==
    {k \in DOMAIN fields : fields[k] \notin supplied}

HtInit ==
    /\ ht_profiles \in UNION {[1..n -> HtKinds] : n \in 1..MaxRecords}
    /\ ht_charts \in 0..MaxCharts
    /\ ht_pc = "count"
    /\ ht_k = 0
    /\ ht_values = <<>>
    /\ ht_sections = 0
    /\ ht_filled = {}
    /\ ht_written = FALSE
    /\ ht_ret = ""
    /\ ht_exc = ""
    /\ Idle("ht")

\* python_count, cpp_count and the charts section
HtCounts ==
    /\ ht_pc = "count"
    /\ ht_values' = [total_profiles |-> Len(ht_profiles),
                     python_profiles |-> HtCount(ht_profiles, "py_"),
                     cpp_profiles |-> HtCount(ht_profiles, "cpp_"),
                     charts |-> ht_charts]
    /\ ht_k' = 1
    /\ ht_pc' = "profiles"
    /\ UNCHANGED <<ht_profiles, ht_charts, ht_sections, ht_filled, ht_written,
                   ht_ret, ht_exc, notHtml>>

\* one turn of `for profile in profiles_data`: its section is appended
HtProfile ==
    /\ ht_pc = "profiles"
    /\ ht_sections' = ht_sections + 1
    /\ IF ht_k < Len(ht_profiles)
       THEN ht_k' = ht_k + 1 /\ UNCHANGED ht_pc
       ELSE ht_pc' = "fill" /\ UNCHANGED ht_k
    /\ UNCHANGED <<ht_profiles, ht_charts, ht_values, ht_filled, ht_written,
                   ht_ret, ht_exc, notHtml>>

\* html_final = html_content.format(...); the file is written; return
HtFill ==
    /\ ht_pc = "fill"
    /\ IF HtMissing(HtTemplateFields, HtSupplied) = {}
       THEN /\ ht_filled' = {HtTemplateFields[k] : k \in DOMAIN HtTemplateFields}
            /\ ht_written' = TRUE
            /\ ht_ret' = "profiling_report.html"
            /\ ht_pc' = "return"
            /\ UNCHANGED ht_exc
       ELSE /\ ht_exc' = "KeyError"
            /\ ht_pc' = "raise"
            /\ UNCHANGED <<ht_filled, ht_written, ht_ret>>
    /\ UNCHANGED <<ht_profiles, ht_charts, ht_k, ht_values, ht_sections,
                   notHtml>>

HtNext == HtCounts \/ HtProfile \/ HtFill

SpecHtml == HtInit /\ [][HtNext]_vars

\* C15: for every non-empty list of records, generate_html_report fills the
\* template from the six supplied values, writes profiling_report.html and
\* returns its path, with total_profiles the number of records and
\* python_profiles / cpp_profiles the numbers of names starting with py_ /
\* cpp_.
C15_HtmlReportWritten ==
    /\ ht_exc = ""
    /\ ht_pc \notin {"idle", "count", "profiles", "fill"} =>
          /\ ht_pc = "return"
          /\ ht_filled = HtSupplied
          /\ ht_written
          /\ ht_ret = "profiling_report.html"
          /\ ht_values.total_profiles = Len(ht_profiles)

\* what generate_html_report does do: the counts are as described, and
\* str.format raises KeyError on the first CSS rule of the template, so
\* nothing is written or returned
HtFormatRaisesKeyError ==
    /\ ht_pc \in {"profiles", "fill", "raise"} =>
          /\ ht_values.total_profiles = Len(ht_profiles)
          /\ ht_values.python_profiles + ht_values.cpp_profiles
                <= Len(ht_profiles)
    /\ ht_pc /= "return"
    /\ ~ht_written
    /\ ht_pc = "raise" <=> ht_exc = "KeyError"
    /\ ht_pc = "raise" => ht_sections = Len(ht_profiles)

(***************************************************************************)
(* python/2_matrix_operations.py: strassen_multiply, by the shapes of its  *)
(* arrays.  The inputs are square, so a shape is one number.  The seven    *)
(* recursive products of one call have operands of the same shape          *)
(* mid x mid, so one of them stands for all seven.                         *)
(***************************************************************************)
StrassenBase == 64

\* a = np.pad(a, ((0, 1), (0, 1))): the shape of a after the padding
StPadded(n) == IF n % 2 /= 0 THEN n + 1 ELSE n

StMin(x, y) == IF x <= y THEN x ELSE y

StInit ==
    /\ st_n \in 1..MaxMatrixN
    /\ st_pc = "call"
    /\ st_arg = st_n
    /\ st_stack = <<>>
    /\ st_res = 0
    /\ st_ret = 0
    /\ Idle("st")

\* strassen_multiply(a, b) is entered with a of shape st_arg: the base case
\* returns np.dot(a, b); otherwise a and b are padded, cut into quadrants
\* and the products are called.  A frame keeps a.shape[0] as it is then.
StCall ==
    /\ st_pc = "call"
    /\ IF st_arg <= StrassenBase
       THEN /\ st_res' = st_arg
            /\ st_pc' = "ret"
            /\ UNCHANGED <<st_stack, st_arg>>
       ELSE /\ st_stack' = Append(st_stack, StPadded(st_arg))
            /\ st_arg' = StPadded(st_arg) \div 2
            /\ UNCHANGED <<st_pc, st_res>>
    /\ UNCHANGED <<st_n, st_ret, notSt>>

\* the products have returned with shape st_res: the quadrants are sums of
\* them, c stacks two by two, and c[:a.shape[0], :b.shape[1]] is returned
StCombine ==
    /\ st_pc = "ret"
    /\ st_stack /= <<>>
    /\ st_res' = StMin(2 * st_res, st_stack[Len(st_stack)])
    /\ st_stack' = SubSeq(st_stack, 1, Len(st_stack) - 1)
    /\ UNCHANGED <<st_n, st_pc, st_arg, st_ret, notSt>>

\* the outermost call returns
StReturn ==
    /\ st_pc = "ret"
    /\ st_stack = <<>>
    /\ st_ret' = st_res
    /\ st_pc' = "done"
    /\ UNCHANGED <<st_n, st_arg, st_stack, st_res, notSt>>

StNext == StCall \/ StCombine \/ StReturn

SpecSt == StInit /\ [][StNext]_vars

\* C16: for n x n inputs the result is n x n, for every n >= 1: what every
\* call returns, to its caller or to the outside, has the shape of the
\* arrays it was given.
C16_StrassenShape ==
    /\ st_pc = "done" => st_ret = st_n
    /\ st_pc = "ret" /\ st_stack /= <<>> =>
          st_res = st_stack[Len(st_stack)] \div 2

\* what strassen_multiply does do: a call given an odd shape above the base
\* size returns the padded shape, one more than it was given
StReturnsPaddedShape ==
    st_pc = "done" =>
        st_ret = IF st_n > StrassenBase THEN StPadded(st_n) ELSE st_n

(***************************************************************************)
(* python/2_matrix_operations.py: naive_matrix_multiply and                *)
(* optimized_matrix_multiply, on matrices of Python ints.                  *)
(*                                                                         *)
(* A matrix is a sequence of rows.  An entry is 1 or 2^27 + 1, so that a   *)
(* product of two entries may need more than the 53 bits of a double, and  *)
(* at most MaxLarge entries of a matrix are the large one.  A              *)
(* number computed by the functions is kept as its limbs (see BigAdd): an  *)
(* int exactly, a float as the integer it equals.  naive starts each entry *)
(* at 0.0, so its += adds an int to a float; optimized uses sum(), which   *)
(* adds ints.                                                              *)
(***************************************************************************)
MmLarge == 2 ^ 27 + 1
MmVals == {1, MmLarge}
MmLargeEntries(m) ==
    {p \in (1..Len(m)) \X (1..Len(m[1])) : m[p[1]][p[2]] = MmLarge}
MmMatrices ==
    {m \in UNION {[1..r -> [1..c -> MmVals]] :
                     r \in 1..MaxDim, c \in 1..MaxDim} :
        Cardinality(MmLargeEntries(m)) <= MaxLarge}

\* a[i][k] * b[k][j]
MmProduct(x, y) == BigMul(BigFromInt(x), BigFromInt(y))

RECURSIVE NaiveEntry(_, _, _, _, _)
\* result[i][j] after k turns of: result[i][j] += a[i][k] * b[k][j]
NaiveEntry(a, b, i, j, k) ==
    IF k = 0 THEN <<>>
    ELSE DoubleAddInt(NaiveEntry(a, b, i, j, k - 1),
                      MmProduct(a[i][k], b[k][j]))

naive_matrix_multiply(a, b) ==
    IF Len(a[1]) /= Len(b)
    THEN [exc |-> "ValueError", result |-> <<>>]
    ELSE [exc |-> "",
          result |-> [i \in 1..Len(a) |-> [j \in 1..Len(b[1]) |->
                         NaiveEntry(a, b, i, j, Len(a[1]))]]]

\* b_transposed = [[b[j][i] for j in range(rows_b)] for i in range(cols_b)]
Transposed(b) == [i \in 1..Len(b[1]) |-> [j \in 1..Len(b) |-> b[j][i]]]

RECURSIVE OptEntry(_, _, _, _, _)
\* sum(a[i][k] * b_transposed[j][k] for k in range(cols_a)), k terms of it
OptEntry(a, bt, i, j, k) ==
    IF k = 0 THEN <<>>
    ELSE BigAdd(OptEntry(a, bt, i, j, k - 1), MmProduct(a[i][k], bt[j][k]))

OptSumSkipsLast(a, bt, i, j) == OptEntry(a, bt, i, j, Len(a[1]) - 1)
OptSum(a, bt, i, j) == OptEntry(a, bt, i, j, Len(a[1]))

optimized_matrix_multiply(a, b) ==
    IF Len(a[1]) /= Len(b)
    THEN [exc |-> "ValueError", result |-> <<>>]
    ELSE [exc |-> "",
          result |-> [i \in 1..Len(a) |-> [j \in 1..Len(b[1]) |->
                         OptSum(a, Transposed(b), i, j)]]]

MmNone == [exc |-> "none", result |-> <<>>]

MmInit ==
    /\ mm_a \in MmMatrices
    /\ mm_b \in MmMatrices
    /\ mm_args = <<mm_a, mm_b>>
    /\ mm_naive = MmNone
    /\ mm_opt = MmNone
    /\ Idle("mm")

\* result1 = naive_matrix_multiply(a, b): neither list is assigned to
MmNaive ==
    /\ mm_args /= <<>>
    /\ mm_naive = MmNone
    /\ mm_naive' = naive_matrix_multiply(mm_a, mm_b)
    /\ UNCHANGED <<mm_a, mm_b, mm_args, mm_opt, notMm>>

\* result2 = optimized_matrix_multiply(a, b): neither list is assigned to
MmOptimized ==
    /\ mm_args /= <<>>
    /\ mm_opt = MmNone
    /\ mm_opt' = optimized_matrix_multiply(mm_a, mm_b)
    /\ UNCHANGED <<mm_a, mm_b, mm_args, mm_naive, notMm>>

MmNext == MmNaive \/ MmOptimized

SpecMm == MmInit /\ [][MmNext]_vars

RECURSIVE MmExact(_, _, _, _, _)
\* the sum over the first k indices of a[i][.] * b[.][j], in the integers
MmExact(a, b, i, j, k) ==
    IF k = 0 THEN <<>>
    ELSE BigAdd(MmProduct(a[i][k], b[k][j]), MmExact(a, b, i, j, k - 1))

MmExactMatrix(a, b) ==
    [i \in 1..Len(a) |-> [j \in 1..Len(b[1]) |->
        MmExact(a, b, i, j, Len(a[1]))]]

MmBothCalled == mm_naive /= MmNone /\ mm_opt /= MmNone

MmCompatible == mm_args /= <<>> /\ Len(mm_a[1]) = Len(mm_b)

\* every entry of the exact product a b is below 2^53
MmFitsDouble ==
    \A i \in 1..Len(mm_a), j \in 1..Len(mm_b[1]) :
        BigBitLen(MmExactMatrix(mm_a, mm_b)[i][j]) <= DoubleBits

TqConsumers == 3

TqConsumerIds == 0..(TqConsumers - 1)

TqPackets == 0..(TqItems - 1)

\* queue.Queue.put blocks while qsize() >= maxsize
TqFull(q) == Len(q) >= TqMaxSize

\* queue.Queue.get returns the entry that was put first
TqGetIndexNewest(q) == Len(q)
TqGetIndex(q) == 1

\* work_queue.put(None)  # For other consumers
TqReputOmitted(q) == q
TqReput(q) == Append(q, None)

TqInit ==
    /\ tq_queue = <<>>
    /\ tq_main = "start_producer"
    /\ tq_k = 0
    /\ tq_producer = "unstarted"
    /\ tq_i = 0
    /\ tq_consumer = [c \in TqConsumerIds |-> "unstarted"]
    /\ tq_item = [c \in TqConsumerIds |-> None]
    /\ tq_got = [idx \in TqPackets |-> 0]
    /\ tq_files = {}
    /\ tq_writes = [idx \in TqPackets |-> 0]
    /\ Idle("tq")

\* producer_thread.start()
TqMainStartProducer ==
    /\ tq_main = "start_producer"
    /\ tq_producer' = "put"
    /\ tq_main' = "start_consumers"
    /\ UNCHANGED <<tq_queue, tq_k, tq_i, tq_consumer, tq_item, tq_got,
                   tq_files, tq_writes, notTq>>

\* for t in consumer_threads: t.start()
TqMainStartConsumer ==
    /\ tq_main = "start_consumers"
    /\ IF tq_k < TqConsumers
       THEN /\ tq_consumer' = [tq_consumer EXCEPT ![tq_k] = "get"]
            /\ tq_k' = tq_k + 1
            /\ UNCHANGED tq_main
       ELSE /\ tq_main' = "join_producer"
            /\ tq_k' = 0
            /\ UNCHANGED tq_consumer
    /\ UNCHANGED <<tq_queue, tq_producer, tq_i, tq_item, tq_got, tq_files,
                   tq_writes, notTq>>

\* producer_thread.join() returns when the producer thread has ended
TqMainJoinProducer ==
    /\ tq_main = "join_producer"
    /\ tq_producer = "done"
    /\ tq_main' = "join_consumers"
    /\ UNCHANGED <<tq_queue, tq_k, tq_producer, tq_i, tq_consumer, tq_item,
                   tq_got, tq_files, tq_writes, notTq>>

\* for t in consumer_threads: t.join()
TqMainJoinConsumer ==
    /\ tq_main = "join_consumers"
    /\ IF tq_k < TqConsumers
       THEN /\ tq_consumer[tq_k] = "done"
            /\ tq_k' = tq_k + 1
            /\ UNCHANGED tq_main
       ELSE /\ tq_main' = "done"
            /\ UNCHANGED tq_k
    /\ UNCHANGED <<tq_queue, tq_producer, tq_i, tq_consumer, tq_item, tq_got,
                   tq_files, tq_writes, notTq>>

TqMain ==
    \/ TqMainStartProducer
    \/ TqMainStartConsumer
    \/ TqMainJoinProducer
    \/ TqMainJoinConsumer

\* for i in range(1000): work_queue.put((i, data))
TqProducerPut ==
    /\ tq_producer = "put"
    /\ IF tq_i < TqItems
       THEN /\ ~TqFull(tq_queue)
            /\ tq_queue' = Append(tq_queue, tq_i)
            /\ tq_i' = tq_i + 1
            /\ UNCHANGED tq_producer
       ELSE /\ tq_producer' = "sentinel"
            /\ UNCHANGED <<tq_queue, tq_i>>
    /\ UNCHANGED <<tq_main, tq_k, tq_consumer, tq_item, tq_got, tq_files,
                   tq_writes, notTq>>

\* work_queue.put(None)  # Sentinel
TqProducerSentinel ==
    /\ tq_producer = "sentinel"
    /\ ~TqFull(tq_queue)
    /\ tq_queue' = Append(tq_queue, None)
    /\ tq_producer' = "done"
    /\ UNCHANGED <<tq_main, tq_k, tq_i, tq_consumer, tq_item, tq_got,
                   tq_files, tq_writes, notTq>>

TqProducer == TqProducerPut \/ TqProducerSentinel

\* item = work_queue.get(); if item is None: ...
TqConsumerGet(c) ==
    /\ tq_consumer[c] = "get"
    /\ tq_queue /= <<>>
    /\ LET k == TqGetIndex(tq_queue)
           item == tq_queue[k]
       IN  /\ tq_queue' = RemoveAt(tq_queue, k)
           /\ tq_item' = [tq_item EXCEPT ![c] = item]
           /\ IF item = None
              THEN /\ tq_consumer' = [tq_consumer EXCEPT ![c] = "reput"]
                   /\ UNCHANGED tq_got
              ELSE /\ tq_consumer' = [tq_consumer EXCEPT ![c] = "write"]
                   /\ tq_got' = [tq_got EXCEPT ![item] = @ + 1]
    /\ UNCHANGED <<tq_main, tq_k, tq_producer, tq_i, tq_files, tq_writes,
                   notTq>>

\* idx, data = item; with open(file_path, 'w') as f: f.write(data)
TqConsumerWrite(c) ==
    /\ tq_consumer[c] = "write"
    /\ tq_files' = tq_files \cup {<<c, tq_item[c]>>}
    /\ tq_writes' = [tq_writes EXCEPT ![tq_item[c]] = @ + 1]
    /\ tq_consumer' = [tq_consumer EXCEPT ![c] = "get"]
    /\ UNCHANGED <<tq_queue, tq_main, tq_k, tq_producer, tq_i, tq_item,
                   tq_got, notTq>>

\* work_queue.put(None); break
TqConsumerReput(c) ==
    /\ tq_consumer[c] = "reput"
    /\ ~TqFull(tq_queue)
    /\ tq_queue' = TqReput(tq_queue)
    /\ tq_consumer' = [tq_consumer EXCEPT ![c] = "done"]
    /\ UNCHANGED <<tq_main, tq_k, tq_producer, tq_i, tq_item, tq_got,
                   tq_files, tq_writes, notTq>>

TqConsumer(c) == TqConsumerGet(c) \/ TqConsumerWrite(c) \/ TqConsumerReput(c)

TqNext ==
    \/ TqMainStartProducer
    \/ TqMainStartConsumer
    \/ TqMainJoinProducer
    \/ TqMainJoinConsumer
    \/ TqProducerPut
    \/ TqProducerSentinel
    \/ \E c \in TqConsumerIds : TqConsumerGet(c)
    \/ \E c \in TqConsumerIds : TqConsumerWrite(c)
    \/ \E c \in TqConsumerIds : TqConsumerReput(c)

SpecTq == TqInit /\ [][TqNext]_vars

\* a thread that can take a step is eventually scheduled
SpecTqFair ==
    /\ SpecTq
    /\ WF_vars(TqMain)
    /\ WF_vars(TqProducer)
    /\ \A c \in TqConsumerIds : WF_vars(TqConsumer(c))

TqWriters(idx) == {c \in TqConsumerIds : <<c, idx>> \in tq_files}

TqInQueue(x) == \E k \in 1..Len(tq_queue) : tq_queue[k] = x

\* C18: on every interleaving each data packet is dequeued and written by
\* exactly one consumer (never more than once, and once by the time both
\* joins have returned), and no consumer leaves its loop while a data packet
\* is still in the queue or still to be produced.
C18_PacketsOnceNoEarlyExit ==
    /\ \A idx \in TqPackets :
          /\ tq_got[idx] <= 1
          /\ tq_writes[idx] <= tq_got[idx]
          /\ Cardinality(TqWriters(idx)) = tq_writes[idx]
    /\ \A c \in TqConsumerIds :
          tq_consumer[c] \in {"reput", "done"} =>
              /\ tq_i = TqItems
              /\ \A idx \in TqPackets : ~TqInQueue(idx)
    /\ tq_main = "done" =>
          \A idx \in TqPackets :
              /\ tq_got[idx] = 1
              /\ tq_writes[idx] = 1
              /\ Cardinality(TqWriters(idx)) = 1

\* both joins have returned and the packets were written by different
\* consumers
C18_Witness ==
    /\ tq_main = "done"
    /\ Cardinality({f[1] : f \in tq_files}) >= 2
    /\ \A idx \in TqPackets : tq_writes[idx] = 1

TqTerminated ==
    /\ tq_main = "done"
    /\ tq_producer = "done"
    /\ \A c \in TqConsumerIds : tq_consumer[c] = "done" /\ tq_item[c] = None
    /\ tq_queue = <<None>>

\* C19: under fair scheduling producer_consumer_io always terminates: the
\* producer, once started, gets past every put; a consumer that re-puts the
\* sentinel never finds the queue full; both joins return, and by then
\* every consumer has got a sentinel and left and the queue holds exactly
\* one entry, the sentinel.
C19_Terminates ==
    /\ (tq_producer \in {"put", "sentinel"}) ~> (tq_producer = "done")
    /\ [](\A c \in TqConsumerIds :
             tq_consumer[c] = "reput" => ~TqFull(tq_queue))
    /\ <>(tq_main = "done")
    /\ [](tq_main = "done" => TqTerminated)

\* the function has returned and a consumer has written nothing: it left
\* on the sentinel alone
C19_Witness ==
    /\ TqTerminated
    /\ Cardinality({f[1] : f \in tq_files}) < TqConsumers

(***************************************************************************)
(* python/5_io_bound_example.py: rate_limited_io, run by an event loop.    *)
(* gather wraps each write_with_limit coroutine in a task; a task runs     *)
(* from one await to the next, and the loop runs the tasks that can go on  *)
(* in any order (the file operations of aiofiles finish in a thread pool). *)
(* asyncio.Semaphore is modelled by its fields: release() hands the permit *)
(* to the first waiter whose future is not done, and that waiter leaves    *)
(* _waiters when it runs again.  The file operations are taken to succeed. *)
(***************************************************************************)
RlTaskIds == 0..(RlTasks - 1)

\* Semaphore.locked()
RlNeverLocked(value, waiters) == FALSE
RlLocked(value, waiters) == value = 0 \/ waiters /= <<>>

\* the positions in _waiters of the futures that are not done
RlNotDone(waiters, woken) ==
    {k \in 1..Len(waiters) : waiters[k] \notin woken}

RlFirst(S) == CHOOSE k \in S : \A j \in S : k <= j

\* Semaphore._wake_up_next(): the value and the woken tasks after it
RlWakeUpNext(value, waiters, woken) ==
    IF RlNotDone(waiters, woken) = {}
    THEN [value |-> value, woken |-> woken]
    ELSE [value |-> value - 1,
          woken |-> woken \cup {waiters[RlFirst(RlNotDone(waiters, woken))]}]

RlRemove(waiters, t) == SelectSeq(waiters, LAMBDA x : x /= t)

\* the tasks inside `async with semaphore`
RlInside == {t \in RlTaskIds : rl_task[t] \in {"inside", "open", "written"}}

RlInit ==
    /\ rl_task = [t \in RlTaskIds |-> "pending"]
    /\ rl_value = RlLimit
    /\ rl_waiters = <<>>
    /\ rl_woken = {}
    /\ rl_acquired = [t \in RlTaskIds |-> 0]
    /\ rl_released = [t \in RlTaskIds |-> 0]
    /\ rl_waited = {}
    /\ rl_gather = "waiting"
    /\ rl_ret = 0
    /\ Idle("rl")

\* write_with_limit starts: async with semaphore -> semaphore.acquire(),
\* which returns at once or appends a future and awaits it
RlAcquire(t) ==
    /\ rl_task[t] = "pending"
    /\ IF ~RlLocked(rl_value, rl_waiters)
       THEN /\ rl_value' = rl_value - 1
            /\ rl_task' = [rl_task EXCEPT ![t] = "inside"]
            /\ rl_acquired' = [rl_acquired EXCEPT ![t] = @ + 1]
            /\ UNCHANGED <<rl_waiters, rl_waited>>
       ELSE /\ rl_waiters' = Append(rl_waiters, t)
            /\ rl_task' = [rl_task EXCEPT ![t] = "waiting"]
            /\ rl_waited' = rl_waited \cup {t}
            /\ UNCHANGED <<rl_value, rl_acquired>>
    /\ UNCHANGED <<rl_woken, rl_released, rl_gather, rl_ret, notRl>>

\* acquire() goes on after `await fut`: the future leaves _waiters, and the
\* next waiter is woken if the value is positive
RlResume(t) ==
    /\ rl_task[t] = "waiting"
    /\ t \in rl_woken
    /\ LET waiters == RlRemove(rl_waiters, t)
           woken == rl_woken \ {t}
           next == IF rl_value > 0
                   THEN RlWakeUpNext(rl_value, waiters, woken)
                   ELSE [value |-> rl_value, woken |-> woken]
       IN  /\ rl_waiters' = waiters
           /\ rl_value' = next.value
           /\ rl_woken' = next.woken
    /\ rl_task' = [rl_task EXCEPT ![t] = "inside"]
    /\ rl_acquired' = [rl_acquired EXCEPT ![t] = @ + 1]
    /\ UNCHANGED <<rl_released, rl_waited, rl_gather, rl_ret, notRl>>

\* async with aiofiles.open(file_path, 'w') as f: the file is open
RlOpen(t) ==
    /\ rl_task[t] = "inside"
    /\ rl_task' = [rl_task EXCEPT ![t] = "open"]
    /\ UNCHANGED <<rl_value, rl_waiters, rl_woken, rl_acquired, rl_released,
                   rl_waited, rl_gather, rl_ret, notRl>>

\* await f.write(...)
RlWrite(t) ==
    /\ rl_task[t] = "open"
    /\ rl_task' = [rl_task EXCEPT ![t] = "written"]
    /\ UNCHANGED <<rl_value, rl_waiters, rl_woken, rl_acquired, rl_released,
                   rl_waited, rl_gather, rl_ret, notRl>>

\* the file is closed, then the semaphore's __aexit__ calls release():
\* self._value += 1; self._wake_up_next(); the task is done
RlRelease(t) ==
    /\ rl_task[t] = "written"
    /\ LET next == RlWakeUpNext(rl_value + 1, rl_waiters, rl_woken)
       IN  /\ rl_value' = next.value
           /\ rl_woken' = next.woken
    /\ rl_task' = [rl_task EXCEPT ![t] = "done"]
    /\ rl_released' = [rl_released EXCEPT ![t] = @ + 1]
    /\ UNCHANGED <<rl_waiters, rl_acquired, rl_waited, rl_gather, rl_ret,
                   notRl>>

\* await asyncio.gather(*tasks) returns when every task is done;
\* return len(tasks)
RlGather ==
    /\ rl_gather = "waiting"
    /\ \A t \in RlTaskIds : rl_task[t] = "done"
    /\ rl_gather' = "returned"
    /\ rl_ret' = RlTasks
    /\ UNCHANGED <<rl_task, rl_value, rl_waiters, rl_woken, rl_acquired,
                   rl_released, rl_waited, notRl>>

RlTask(t) ==
    RlAcquire(t) \/ RlResume(t) \/ RlOpen(t) \/ RlWrite(t) \/ RlRelease(t)

RlNext ==
    \/ \E t \in RlTaskIds : RlAcquire(t)
    \/ \E t \in RlTaskIds : RlResume(t)
    \/ \E t \in RlTaskIds : RlOpen(t)
    \/ \E t \in RlTaskIds : RlWrite(t)
    \/ \E t \in RlTaskIds : RlRelease(t)
    \/ RlGather

SpecRl == RlInit /\ [][RlNext]_vars

\* the event loop runs every task that can go on, and the coroutine that
\* awaits gather
SpecRlFair ==
    /\ SpecRl
    /\ \A t \in RlTaskIds : WF_vars(RlTask(t))
    /\ WF_vars(RlGather)

\* C23: at every point of every schedule at most 10 (the semaphore's
\* initial value) of the tasks are inside the semaphore-guarded section,
\* every task eventually acquires the semaphore and releases it, and gather
\* returns after all the tasks have completed.
C23_RateLimited ==
    /\ [](Cardinality(RlInside) <= RlLimit)
    /\ [](rl_gather = "returned" =>
             \A t \in RlTaskIds :
                 /\ rl_task[t] = "done"
                 /\ rl_acquired[t] = 1
                 /\ rl_released[t] = 1)
    /\ <>(rl_gather = "returned")

\* gather has returned, the limit was reached on the way and tasks had to
\* wait for a permit
C23_Witness ==
    /\ rl_gather = "returned"
    /\ rl_ret = RlTasks
    /\ Cardinality(rl_waited) >= RlTasks - RlLimit
    /\ rl_value = RlLimit

(***************************************************************************)
(* python/4_nvtx_annotations.py: profile_function.  One call of a function *)
(* wrapped by it: train_model with some number of epochs, or a function    *)
(* that uses no ranges.  The wrapped function may raise at any point       *)
(* (np.dot on data it cannot multiply, MemoryError, KeyboardInterrupt).    *)
(***************************************************************************)
\* the nvtx uses of train_model itself, without those of its wrapper
WrTrainModel(epochs) ==
    SubSeq(train_model(epochs), 2, Len(train_model(epochs)) - 1)

WrBodies == {<<>>} \cup {WrTrainModel(e) : e \in 0..NvEpochs}

WrValues == {"weights", "None"}

\* nvtx.push_range(name): DummyNVTX.push_range is `pass`
WrPushRange(available, ranges, name) ==
    IF available THEN Append(ranges, name) ELSE ranges

\* nvtx.pop_range() closes the innermost open range: DummyNVTX.pop_range
\* is `pass`
WrPopRangeNoop(available, ranges) == ranges
WrPopRange(available, ranges) ==
    IF available /\ ranges /= <<>>
    THEN SubSeq(ranges, 1, Len(ranges) - 1)
    ELSE ranges

WrInit ==
    /\ wr_available \in BOOLEAN
    /\ wr_body \in WrBodies
    /\ wr_fault \in 0..(Len(wr_body) + 1)
    /\ wr_value \in WrValues
    /\ wr_pc = "call"
    /\ wr_k = 0
    /\ wr_before \in {<<>>, <<"Caller">>}
    /\ wr_ranges = IF wr_available THEN wr_before ELSE <<>>
    /\ wr_log = <<>>
    /\ wr_result = ""
    /\ wr_exc = ""
    /\ wr_ret = ""
    /\ wr_out = ""
    /\ Idle("wr")

\* wrapper: nvtx.push_range(func_name, color=color); start = time.time();
\* the try block is entered and func is called
WrCall ==
    /\ wr_pc = "call"
    /\ wr_ranges' = WrPushRange(wr_available, wr_ranges, "ModelTraining")
    /\ wr_log' = Append(wr_log, "push_range")
    /\ wr_k' = 1
    /\ wr_pc' = "func"
    /\ UNCHANGED <<wr_available, wr_body, wr_fault, wr_value, wr_before,
                   wr_result, wr_exc, wr_ret, wr_out, notWr>>

\* the wrapped function runs up to its next push_range or pop_range
WrFuncStep ==
    /\ wr_pc = "func"
    /\ wr_k <= Len(wr_body)
    /\ wr_fault /= wr_k
    /\ wr_ranges' =
          IF wr_body[wr_k].op = "push"
          THEN WrPushRange(wr_available, wr_ranges, wr_body[wr_k].name)
          ELSE WrPopRange(wr_available, wr_ranges)
    /\ wr_k' = wr_k + 1
    /\ UNCHANGED <<wr_available, wr_body, wr_fault, wr_value, wr_pc,
                   wr_before, wr_log, wr_result, wr_exc, wr_ret, wr_out,
                   notWr>>

\* the wrapped function raises: the exception reaches the wrapper's try
WrFuncRaise ==
    /\ wr_pc = "func"
    /\ wr_fault = wr_k
    /\ wr_exc' = "Exception"
    /\ wr_log' = Append(wr_log, "func raised")
    /\ wr_pc' = "finally"
    /\ UNCHANGED <<wr_available, wr_body, wr_fault, wr_value, wr_k,
                   wr_before, wr_ranges, wr_result, wr_ret, wr_out, notWr>>

\* result = func(*args, **kwargs)
WrFuncReturn ==
    /\ wr_pc = "func"
    /\ wr_k = Len(wr_body) + 1
    /\ wr_fault /= wr_k
    /\ wr_result' = wr_value
    /\ wr_log' = Append(wr_log, "func returned")
    /\ wr_pc' = "finally"
    /\ UNCHANGED <<wr_available, wr_body, wr_fault, wr_value, wr_k,
                   wr_before, wr_ranges, wr_exc, wr_ret, wr_out, notWr>>

\* finally: nvtx.pop_range(); print; then `return result` completes or the
\* exception goes on to the caller
WrFinally ==
    /\ wr_pc = "finally"
    /\ wr_ranges' = WrPopRange(wr_available, wr_ranges)
    /\ wr_log' = Append(wr_log, "pop_range")
    /\ IF wr_exc = ""
       THEN /\ wr_ret' = wr_result
            /\ wr_pc' = "returned"
            /\ UNCHANGED wr_out
       ELSE /\ wr_out' = wr_exc
            /\ wr_pc' = "raised"
            /\ UNCHANGED wr_ret
    /\ UNCHANGED <<wr_available, wr_body, wr_fault, wr_value, wr_k,
                   wr_before, wr_result, wr_exc, notWr>>

WrNext ==
    WrCall \/ WrFuncStep \/ WrFuncRaise \/ WrFuncReturn \/ WrFinally

SpecWr == WrInit /\ [][WrNext]_vars

WrEnded == wr_pc \in {"returned", "raised"}

RECURSIVE WrOpen(_, _)
\* how many ranges of its own the wrapped function has open before its
\* k-th use
WrOpen(body, k) ==
    IF k <= 1 THEN 0
    ELSE WrOpen(body, k - 1)
         + (IF body[k - 1].op = "push" THEN 1 ELSE -1)

\* one push_range, then the function, then one pop_range; the value
\* returned unchanged, or the exception raised in the caller
WrOnePushOnePop ==
    /\ wr_pc = "returned" =>
          /\ wr_log = <<"push_range", "func returned", "pop_range">>
          /\ wr_ret = wr_value
          /\ wr_out = ""
    /\ wr_pc = "raised" =>
          /\ wr_log = <<"push_range", "func raised", "pop_range">>
          /\ wr_out = "Exception"
          /\ wr_ret = ""

\* C24 as stated: on every call of a wrapped function there is exactly one
\* push_range followed by exactly one pop_range, the pop after the function
\* has returned or raised; the return value is returned unchanged and an
\* exception propagates after the pop; and the range depth after the call
\* equals the depth before it in both cases.
C24_DepthRestored ==
    /\ WrOnePushOnePop
    /\ WrEnded => Len(wr_ranges) = Len(IF wr_available THEN wr_before ELSE <<>>)

\* C24, amended: as above, and the depth after the call is the depth before
\* it when the function returns, and when it raises the depth before it
\* plus the number of ranges the function itself had open when it raised
\* (with the dummy nvtx there are no ranges at all).
C24_DepthRestoredUnlessLeftOpen ==
    /\ WrOnePushOnePop
    /\ wr_pc = "returned" => wr_ranges = wr_before \/ ~wr_available
    /\ wr_pc = "raised" /\ wr_available =>
          /\ Len(wr_ranges) = Len(wr_before) + WrOpen(wr_body, wr_fault)
          /\ WrOpen(wr_body, wr_fault) = 0 => wr_ranges = wr_before
    /\ ~wr_available => wr_ranges = <<>>

\* train_model has raised inside its "Forward" range and the wrapper has
\* popped: "ModelTraining" and the epoch's range are still open
C24_Witness ==
    /\ wr_pc = "raised"
    /\ wr_available
    /\ WrOpen(wr_body, wr_fault) = 2
    /\ Len(wr_ranges) = Len(wr_before) + 2
    /\ wr_ranges[Len(wr_before) + 1] = "ModelTraining"

====
